---- MODULE Spec2Model ----
(***************************************************************************)
(* A model of Gopher2600.                                                  *)
(*                                                                         *)
(* Part 1: the television receiver (package television, BasicTelevision).  *)
(* The television is a record btv holding the fields of the Go struct; one *)
(* call of Signal() or Reset() is one step.  The renderers attached to the *)
(* television are recording sinks: every call the television makes on them *)
(* during one Signal() is kept, in order, in the variable calls.  The      *)
(* sinks accept every call (their methods return nil), so the "err != nil" *)
(* returns that follow each renderer call in Signal() are not taken.  The  *)
(* colour payload of a pixel (sig.Pixel, sig.AltPixel, getColor) plays no  *)
(* part in the television's state and is not carried.                      *)
(*                                                                         *)
(* Part 2: the TIA sprite (package video, type sprite).  One call of a     *)
(* method of the sprite is one step.  The polycounter, the future          *)
(* scheduler and the spriteTick function of the sprite's owner are outside *)
(* the files modelled and follow their description in the specification.   *)
(*                                                                         *)
(* Part 3: the validity check of a CPU result (Result.IsValid).            *)
(*                                                                         *)
(* Part 4: the CPU bus of the memory (VCSMemory.Read and Write).           *)
(*                                                                         *)
(* Part 5: the input loop of the debugger (Debugger.inputLoop and          *)
(* handleInterrupt).                                                       *)
(*                                                                         *)
(* Part 6: the validation of a command line against command templates      *)
(* (Commands.Validate, ValidateTokens and node.validate).                  *)
(*                                                                         *)
(* Part 7: selection from the session database (Session.SelectAll and      *)
(* Session.SelectKeys).                                                    *)
(*                                                                         *)
(* Part 8: the table of symbols of a cartridge (ReadSymbolsFile).          *)
(*                                                                         *)
(* Part 9: the register of n bits (package r16bit), as its test uses it.   *)
(*                                                                         *)
(* Each part has its own specifications; the variables of the other parts  *)
(* are Absent in them.                                                     *)
(***************************************************************************)
EXTENDS Integers, Sequences, FiniteSets, TLC

VARIABLES
    btv,        \* the BasicTelevision struct
    op,         \* the most recent call: "New", "Signal" or "Reset"
    sig,        \* the SignalAttributes passed to the most recent Signal()
    err,        \* what the most recent call returned (NoError is nil)
    calls,      \* the renderer calls made by the most recent call, in order
    vsyncHeld,  \* observer: consecutive most recent Signal() calls with VSync on
    gen,        \* the signal generator of SpecTVStream
    sp,         \* the sprite struct
    spObs,      \* observer: what the calls on the sprite did
    result,     \* the execution Result given to IsValid() and what it returned
    mem,        \* the VCSMemory struct and the chips behind it
    memObs,     \* observer: the most recent access on the CPU bus
    dbg,        \* the Debugger struct and the position of its input loop
    dbgObs,     \* observer: what the input loop of the debugger did
    cmdline,    \* a command template, the tokens given to it and the verdict
    db,         \* the database Session, a selection from it and its result
    symbols,    \* a cartridge, its symbols file and what ReadSymbolsFile() gave
    reg         \* a register of n bits and what the most recent call gave

vars == <<btv, op, sig, err, calls, vsyncHeld, gen, sp, spObs, result, mem,
          memObs, dbg, dbgObs, cmdline, db, symbols, reg>>

\* the value of a variable in the specifications of the other parts
Absent == "absent"

tvVars == <<btv, sig, err, calls, vsyncHeld, gen>>
spriteVars == <<sp, spObs>>
cpuVars == <<result>>
memVars == <<mem, memObs>>
debuggerVars == <<dbg, dbgObs>>
cmdlineVars == <<cmdline>>
databaseVars == <<db>>
symbolsVars == <<symbols>>
registerVars == <<reg>>

NoDebugger == dbg = Absent /\ dbgObs = Absent
NoCommandline == cmdline = Absent
NoDatabase == db = Absent
NoSymbols == symbols = Absent
NoRegister == reg = Absent

(***************************************************************************)
(* Television specifications                                               *)
(***************************************************************************)
HorizClksHBlank == 68
HorizClksVisible == 160
HorizClksScanline == 228

maxNTSCscanlines == 276

\* the number of colour clocks VSYNC has to be held for a new frame
VsyncClocks == 3

SpecNTSC ==
    [ID |-> "NTSC",
     ClocksPerHblank |-> HorizClksHBlank,
     ClocksPerVisible |-> HorizClksVisible,
     VsyncClocks |-> VsyncClocks,
     ScanlinesVSync |-> 3,
     scanlinesVBlank |-> 37,
     ScanlinesVisible |-> 192,
     ScanlinesOverscan |-> 30,
     ScanlinesTotal |-> 262,
     IdealTop |-> 37 + 3,
     IdealBottom |-> 262 - 30]

SpecPAL ==
    [ID |-> "PAL",
     ClocksPerHblank |-> HorizClksHBlank,
     ClocksPerVisible |-> HorizClksVisible,
     VsyncClocks |-> VsyncClocks,
     ScanlinesVSync |-> 3,
     scanlinesVBlank |-> 45,
     ScanlinesVisible |-> 228,
     ScanlinesOverscan |-> 36,
     ScanlinesTotal |-> 312,
     IdealTop |-> 45 + 3,
     IdealBottom |-> 312 - 36]

(***************************************************************************)
(* Signals, errors and renderer calls                                      *)
(***************************************************************************)
\* SignalAttributes{}: the zero value
NoSignal ==
    [VSync |-> FALSE, VBlank |-> FALSE, FrontPorch |-> FALSE,
     HSync |-> FALSE, CBurst |-> FALSE]

SignalAttributes ==
    [VSync : BOOLEAN, VBlank : BOOLEAN, FrontPorch : BOOLEAN,
     HSync : BOOLEAN, CBurst : BOOLEAN]

NoError == "nil"
BadHSyncOn == "bad HSYNC (on)"
BadHSyncOff == "bad HSYNC (off)"
BadCBurstOn == "bad CBURST (on)"
BadCBurstOff == "bad CBURST (off)"
NoFrontPorch == "no FRONTPORCH"

\* one renderer call per renderer of the list, in list order
ForEachRenderer(b, call) ==
    [f \in 1..Len(b.renderers) |-> <<b.renderers[f]>> \o call]

(***************************************************************************)
(* NewBasicTelevision, AddRenderer, Reset                                  *)
(***************************************************************************)
Reset(b) ==
    [b EXCEPT !.horizPos = -b.spec.ClocksPerHblank,
              !.frameNum = 0,
              !.scanline = 0,
              !.vsyncCount = 0,
              !.prevSignal = NoSignal,
              !.pendingVisibleTop = b.spec.IdealTop,
              !.pendingVisibleBottom = b.spec.IdealBottom]

\* new(BasicTelevision): every field at its zero value
ZeroTelevision(spec) ==
    [spec |-> spec,
     outOfSpec |-> FALSE,
     endOfScreen |-> FALSE,
     horizPos |-> 0,
     frameNum |-> 0,
     scanline |-> 0,
     prevSignal |-> NoSignal,
     vsyncCount |-> 0,
     visibleTop |-> 0,
     visibleBottom |-> 0,
     pendingVisibleTop |-> 0,
     pendingVisibleBottom |-> 0,
     renderers |-> <<>>]

NewBasicTelevision(tvType) ==
    LET spec == IF tvType = "NTSC" THEN SpecNTSC ELSE SpecPAL
    IN  Reset([ZeroTelevision(spec) EXCEPT !.horizPos = -spec.ClocksPerHblank,
                                           !.frameNum = 0,
                                           !.scanline = 0,
                                           !.renderers = <<>>])

AddRenderer(b, r) == [b EXCEPT !.renderers = Append(@, r)]

(***************************************************************************)
(* Signal                                                                  *)
(***************************************************************************)
\* the HSYNC and CBURST edge checks: the error returned, or NoError
SyncError(b, s) ==
    IF s.HSync /\ ~b.prevSignal.HSync /\ (b.horizPos < -52 \/ b.horizPos > -49)
    THEN BadHSyncOn
    ELSE IF ~s.HSync /\ b.prevSignal.HSync /\ (b.horizPos < -36 \/ b.horizPos > -33)
    THEN BadHSyncOff
    ELSE IF s.CBurst /\ ~b.prevSignal.CBurst /\ (b.horizPos < -28 \/ b.horizPos > -17)
    THEN BadCBurstOn
    ELSE IF ~s.CBurst /\ b.prevSignal.CBurst /\ (b.horizPos < -19 \/ b.horizPos > -16)
    THEN BadCBurstOff
    ELSE NoError

\* does this signal end a VSYNC that triggers a new frame
NewFrameDue(b, s) == ~s.VSync /\ b.vsyncCount >= b.spec.VsyncClocks

\* SignalVSync forgetting to clear vsyncCount when the frame advances
SignalVSync_CountKept(b, s) ==
    IF s.VSync
    THEN [b EXCEPT !.vsyncCount = @ + 1]
    ELSE IF b.vsyncCount >= b.spec.VsyncClocks
    THEN [b EXCEPT !.outOfSpec = (b.vsyncCount # b.spec.VsyncClocks),
                   !.endOfScreen = FALSE,
                   !.frameNum = @ + 1,
                   !.scanline = 0,
                   !.visibleTop = b.pendingVisibleTop,
                   !.visibleBottom = b.pendingVisibleBottom,
                   !.pendingVisibleTop = b.spec.IdealTop,
                   !.pendingVisibleBottom = b.spec.IdealBottom]
    ELSE b

\* "simple implementation of vsync"
SignalVSync(b, s) ==
    IF s.VSync
    THEN [b EXCEPT !.vsyncCount = @ + 1]
    ELSE IF b.vsyncCount >= b.spec.VsyncClocks
    THEN [b EXCEPT !.outOfSpec = (b.vsyncCount # b.spec.VsyncClocks),
                   !.endOfScreen = FALSE,
                   !.frameNum = @ + 1,
                   !.scanline = 0,
                   !.vsyncCount = 0,
                   !.visibleTop = b.pendingVisibleTop,
                   !.visibleBottom = b.pendingVisibleBottom,
                   !.pendingVisibleTop = b.spec.IdealTop,
                   !.pendingVisibleBottom = b.spec.IdealBottom]
    ELSE b

\* "start a new scanline if a frontporch signal has been received"
SignalFrontPorch(b, s) ==
    IF s.FrontPorch
    THEN LET n == b.scanline + 1
             over == n > b.spec.ScanlinesTotal
         IN  [b EXCEPT !.horizPos = -b.spec.ClocksPerHblank,
                       !.scanline = n,
                       !.outOfSpec = IF over THEN TRUE ELSE @,
                       !.endOfScreen = IF over THEN TRUE ELSE @]
    ELSE [b EXCEPT !.horizPos = @ + 1]

\* SignalVisible without the "keep within limits" of the top
SignalVisible_TopNotLimited(b, s) ==
    IF s.VBlank
    THEN b
    ELSE LET bottom ==
                 IF b.endOfScreen /\ b.scanline > b.pendingVisibleBottom
                 THEN IF b.scanline + 2 > b.spec.ScanlinesTotal
                      THEN b.spec.ScanlinesTotal
                      ELSE b.scanline + 2
                 ELSE b.pendingVisibleBottom
             top ==
                 IF b.scanline < b.pendingVisibleTop
                 THEN b.scanline - 2
                 ELSE b.pendingVisibleTop
         IN  [b EXCEPT !.pendingVisibleBottom = bottom,
                       !.pendingVisibleTop = top]

\* "push screen limits outwards as required"
SignalVisible(b, s) ==
    IF s.VBlank
    THEN b
    ELSE LET bottom ==
                 IF b.endOfScreen /\ b.scanline > b.pendingVisibleBottom
                 THEN IF b.scanline + 2 > b.spec.ScanlinesTotal
                      THEN b.spec.ScanlinesTotal
                      ELSE b.scanline + 2
                 ELSE b.pendingVisibleBottom
             top ==
                 IF b.scanline < b.pendingVisibleTop
                 THEN IF b.scanline - 2 < 0 THEN 0 ELSE b.scanline - 2
                 ELSE b.pendingVisibleTop
         IN  [b EXCEPT !.pendingVisibleBottom = bottom,
                       !.pendingVisibleTop = top]

\* SignalPixels without the endOfScreen test
SignalPixels_EndOfScreenIgnored(b, s) ==
    LET x == b.horizPos + b.spec.ClocksPerHblank
        y == b.scanline
    IN  ForEachRenderer(b, <<"SetPixel", x, y, s.VBlank>>)
        \o ForEachRenderer(b, <<"SetAltPixel", x, y, s.VBlank>>)

\* the pixel calls at the end of Signal()
SignalPixels(b, s) ==
    IF ~b.endOfScreen
    THEN LET x == b.horizPos + b.spec.ClocksPerHblank
             y == b.scanline
         IN  ForEachRenderer(b, <<"SetPixel", x, y, s.VBlank>>)
             \o ForEachRenderer(b, <<"SetAltPixel", x, y, s.VBlank>>)
    ELSE <<>>

\* Signal(sig): the television afterwards, the error returned and the
\* renderer calls made
Signal(b, s) ==
    LET e == SyncError(b, s) IN
    IF e # NoError
    THEN [btv |-> b, err |-> e, calls |-> <<>>]
    ELSE
    LET b1 == SignalVSync(b, s)
        c1 == IF NewFrameDue(b, s)
              THEN ForEachRenderer(b1, <<"NewFrame", b1.frameNum>>)
              ELSE <<>>
        b2 == SignalFrontPorch(b1, s)
        c2 == IF s.FrontPorch
              THEN ForEachRenderer(b2, <<"NewScanline", b2.scanline>>)
              ELSE <<>>
    IN  IF ~s.FrontPorch /\ b2.horizPos > b2.spec.ClocksPerVisible
        THEN [btv |-> b2, err |-> NoFrontPorch, calls |-> c1 \o c2]
        ELSE LET b3 == [SignalVisible(b2, s) EXCEPT !.prevSignal = s]
             IN  [btv |-> b3, err |-> NoError,
                  calls |-> c1 \o c2 \o SignalPixels(b3, s)]

(***************************************************************************)
(* Steps: one call of Signal() or Reset() on the television                *)
(***************************************************************************)
SignalStep(s) ==
    LET r == Signal(btv, s)
    IN  /\ btv' = r.btv
        /\ op' = "Signal"
        /\ sig' = s
        /\ err' = r.err
        /\ calls' = r.calls
        /\ vsyncHeld' = IF s.VSync THEN vsyncHeld + 1 ELSE 0
        /\ UNCHANGED <<spriteVars, cpuVars, memVars, debuggerVars, cmdlineVars,
                     databaseVars, symbolsVars, registerVars>>

ResetStep ==
    /\ btv' = Reset(btv)
    /\ op' = "Reset"
    /\ sig' = NoSignal
    /\ err' = NoError
    /\ calls' = <<>>
    /\ vsyncHeld' = 0
    /\ UNCHANGED <<spriteVars, cpuVars, memVars, debuggerVars, cmdlineVars,
                     databaseVars, symbolsVars, registerVars>>

\* the television as the emulation sets it up: NewBasicTelevision(tvType)
\* followed by AddRenderer for each renderer
RECURSIVE WithRenderers(_, _)
WithRenderers(b, n) ==
    IF n = 0 THEN b ELSE AddRenderer(WithRenderers(b, n - 1), n)

TvTypes == {"NTSC", "PAL"}
NumRenderers == 2

InitTV(tvType) ==
    /\ btv = WithRenderers(NewBasicTelevision(tvType), NumRenderers)
    /\ op = "New"
    /\ sig = NoSignal
    /\ err = NoError
    /\ calls = <<>>
    /\ vsyncHeld = 0
    /\ gen = [iter |-> 0, line |-> 0, clk |-> 0, newFrames |-> 0, newScanlines |-> 0]
    /\ sp = Absent /\ spObs = Absent /\ result = Absent
    /\ mem = Absent /\ memObs = Absent
    /\ NoDebugger /\ NoCommandline /\ NoDatabase
    /\ NoSymbols /\ NoRegister

(***************************************************************************)
(* SpecTVFrame: whole frames.  The signal generator sends short scanlines  *)
(* (FRONTPORCH after at most MaxLineClocks further colour clocks, no HSYNC *)
(* or CBURST) and runs up to MaxOverscan scanlines past the total of the   *)
(* specification.  It asserts VSYNC only once the last scanline of the     *)
(* specification has been reached, and it turns VBLANK off (picture) from  *)
(* MaxEarly scanlines above the ideal top onwards, or in the first         *)
(* scanlines of a frame.                                                   *)
(***************************************************************************)
MaxLineClocks == 0
MaxOverscan == 15
MaxVsyncExtra == 1
MaxFrames == 1
MaxEarly == 1

FrameSignalOK(b, s) ==
    /\ ~s.HSync /\ ~s.CBurst
    /\ ~s.FrontPorch => b.horizPos < -b.spec.ClocksPerHblank + MaxLineClocks
    /\ s.FrontPorch => b.scanline < b.spec.ScanlinesTotal + MaxOverscan
    /\ s.VSync => /\ b.vsyncCount < b.spec.VsyncClocks + MaxVsyncExtra
                  /\ b.scanline >= b.spec.ScanlinesTotal
    /\ NewFrameDue(b, s) => b.frameNum < MaxFrames
    /\ ~s.VBlank =>
           LET y == IF s.FrontPorch THEN b.scanline + 1 ELSE b.scanline
           IN  y <= MaxEarly \/ y >= b.spec.IdealTop - MaxEarly

FrameSignal ==
    /\ \E s \in SignalAttributes : FrameSignalOK(btv, s) /\ SignalStep(s)
    /\ UNCHANGED gen

InitFrame == \E tvType \in TvTypes : InitTV(tvType)
NextFrame == FrameSignal
SpecTVFrame == InitFrame /\ [][NextFrame]_vars

(***************************************************************************)
(* SpecTVLine: one scanline in full.  The signal generator sends any HSYNC, *)
(* CBURST and FRONTPORCH (VBLANK on, no VSYNC), starts at most MaxLines     *)
(* scanlines and keeps sending without FRONTPORCH until the horizontal      *)
(* position is MaxOverrun past the visible clocks.                          *)
(***************************************************************************)
MaxLines == 1
MaxOverrun == 2

LineSignalOK(b, s) ==
    /\ ~s.VSync /\ s.VBlank
    /\ s.FrontPorch => b.scanline < MaxLines
    /\ ~s.FrontPorch => b.horizPos < b.spec.ClocksPerVisible + MaxOverrun

LineSignal ==
    /\ \E s \in SignalAttributes : LineSignalOK(btv, s) /\ SignalStep(s)
    /\ UNCHANGED gen

InitLine == \E tvType \in TvTypes : InitTV(tvType)
NextLine == LineSignal
SpecTVLine == InitLine /\ [][NextLine]_vars

(***************************************************************************)
(* SpecTVSync: VSYNC and Reset.  The signal generator sends any VSYNC,      *)
(* VBLANK and FRONTPORCH (no HSYNC or CBURST), in the first MaxSyncLines    *)
(* scanlines and the first MaxSyncClocks colour clocks of a scanline, holds *)
(* VSYNC for at most MaxVsyncExtra clocks more than the specification asks  *)
(* for, and the television may be Reset at any time.                        *)
(***************************************************************************)
MaxSyncLines == 2
MaxSyncClocks == 2
MaxSyncFrames == 2

SyncSignalOK(b, s) ==
    /\ ~s.HSync /\ ~s.CBurst
    /\ s.FrontPorch => b.scanline < MaxSyncLines
    /\ ~s.FrontPorch => b.horizPos < -b.spec.ClocksPerHblank + MaxSyncClocks
    /\ s.VSync => /\ b.vsyncCount < b.spec.VsyncClocks + MaxVsyncExtra
                  /\ vsyncHeld < b.spec.VsyncClocks + MaxVsyncExtra
    /\ NewFrameDue(b, s) => b.frameNum < MaxSyncFrames

SyncSignal ==
    /\ \E s \in SignalAttributes : SyncSignalOK(btv, s) /\ SignalStep(s)
    /\ UNCHANGED gen

SyncReset ==
    /\ ResetStep
    /\ UNCHANGED gen

InitSync == \E tvType \in TvTypes : InitTV(tvType)
NextSync == SyncSignal \/ SyncReset
SpecTVSync == InitSync /\ [][NextSync]_vars

(***************************************************************************)
(* SpecTVStream: the well-formed NTSC signal of a VCS program.  Every       *)
(* scanline is HorizClksScanline colour clocks, the first of them carrying  *)
(* FRONTPORCH; HSYNC and CBURST rise and fall somewhere inside their        *)
(* windows; a frame is ScanlinesTotal scanlines, with VSYNC held for the    *)
(* first VsyncClocks clocks of its first scanline and VBLANK on above the   *)
(* ideal top and below the ideal bottom.  gen is the position of the next   *)
(* signal, and counts the NewFrame and NewScanline calls the first renderer *)
(* has received in the current iteration of the frame.                      *)
(***************************************************************************)
MaxIterations == 2

\* the horizontal position of the television when it receives clock clk
GenHorizPos(g) == g.clk - 1 - HorizClksHBlank

\* the levels a sync line may take: it rises somewhere in lo..riseBy and
\* falls somewhere in offLo..fallBy
GenLevels(prev, pos, lo, riseBy, offLo, fallBy) ==
    IF ~prev
    THEN IF pos >= lo /\ pos < riseBy THEN {FALSE, TRUE}
         ELSE IF pos = riseBy THEN {TRUE}
         ELSE {FALSE}
    ELSE IF pos >= offLo /\ pos < fallBy THEN {TRUE, FALSE}
         ELSE IF pos = fallBy THEN {FALSE}
         ELSE {TRUE}

StreamSignals(b, g) ==
    {s \in SignalAttributes :
        /\ s.FrontPorch = (g.clk = 0)
        /\ s.VSync = (g.line = 0 /\ g.clk < b.spec.VsyncClocks)
        /\ s.VBlank = (g.line < b.spec.IdealTop \/ g.line >= b.spec.IdealBottom)
        /\ s.HSync \in GenLevels(b.prevSignal.HSync, GenHorizPos(g), -52, -49, -36, -33)
        /\ s.CBurst \in GenLevels(b.prevSignal.CBurst, GenHorizPos(g), -28, -20, -19, -16)}

\* how many calls of method m the first renderer receives in a list of calls
CountCalls(c, m) ==
    Cardinality({i \in DOMAIN c : c[i][1] = 1 /\ c[i][2] = m})

GenAdvance(g, b, c) ==
    LET first == g.line = 0 /\ g.clk = 0
        lastClk == g.clk = HorizClksScanline - 1
        lastLine == g.line = b.spec.ScanlinesTotal - 1
    IN  [iter |-> IF lastClk /\ lastLine THEN g.iter + 1 ELSE g.iter,
         line |-> IF ~lastClk THEN g.line ELSE IF lastLine THEN 0 ELSE g.line + 1,
         clk |-> IF lastClk THEN 0 ELSE g.clk + 1,
         newFrames |-> (IF first THEN 0 ELSE g.newFrames) + CountCalls(c, "NewFrame"),
         newScanlines |-> (IF first THEN 0 ELSE g.newScanlines) + CountCalls(c, "NewScanline")]

StreamSignal ==
    /\ gen.iter < MaxIterations
    /\ \E s \in StreamSignals(btv, gen) :
          /\ SignalStep(s)
          /\ gen' = GenAdvance(gen, btv, Signal(btv, s).calls)

InitStream == InitTV("NTSC")
NextStream == StreamSignal
SpecTVStream == InitStream /\ [][NextStream]_vars

(***************************************************************************)
(* Properties of the television                                            *)
(***************************************************************************)
\* the calls of the methods ms that renderer r receives in the list c
CallsOf(c, r, ms) ==
    LET keep(x) == x[1] = r /\ x[2] \in ms
    IN  SelectSeq(c, keep)

Renderers == 1..NumRenderers
PixelMethods == {"SetPixel", "SetAltPixel"}

\* C1: after VSYNC has been held for at least VsyncClocks colour clocks, the
\* Signal call that ends it advances frameNum by one, resets scanline (a
\* FRONTPORCH of the same signal counts from zero) and vsyncCount, and sends
\* each renderer one NewFrame with the new frame number; no other Signal call
\* advances the frame.
C1_FrameAdvanceOnlyAfterHeldVSync ==
    [][op' = "Signal" =>
        IF vsyncHeld >= btv.spec.VsyncClocks /\ ~sig'.VSync
        THEN /\ btv'.frameNum = btv.frameNum + 1
             /\ btv'.scanline = (IF sig'.FrontPorch THEN 1 ELSE 0)
             /\ btv'.vsyncCount = 0
             /\ \A r \in Renderers :
                    CallsOf(calls', r, {"NewFrame"}) = << <<r, "NewFrame", btv'.frameNum>> >>
        ELSE /\ btv'.frameNum = btv.frameNum
             /\ \A r \in Renderers : CallsOf(calls', r, {"NewFrame"}) = <<>>]_vars

\* C2: a Signal whose HSYNC edge arrives outside its window sets outOfSpec and
\* is processed all the same: the horizontal position moves on and the signal
\* becomes prevSignal.
HSyncEdgeOutOfWindow(b, s) ==
    \/ s.HSync /\ ~b.prevSignal.HSync /\ b.horizPos \notin -52..-49
    \/ ~s.HSync /\ b.prevSignal.HSync /\ b.horizPos \notin -36..-33

C2_BadHSyncFlaggedAndProcessed ==
    [][(op' = "Signal" /\ HSyncEdgeOutOfWindow(btv, sig')) =>
        /\ btv'.outOfSpec
        /\ btv'.prevSignal = sig'
        /\ btv'.horizPos = (IF sig'.FrontPorch THEN -btv.spec.ClocksPerHblank
                            ELSE btv.horizPos + 1)]_vars

\* C4: every Signal with FRONTPORCH resets horizPos to -ClocksPerHblank, adds
\* one to scanline and sends each renderer NewScanline(scanline); every Signal
\* without FRONTPORCH adds one to horizPos and sends no NewScanline.
C4_FrontPorchStartsScanline ==
    [][op' = "Signal" =>
        IF sig'.FrontPorch
        THEN /\ btv'.horizPos = -btv.spec.ClocksPerHblank
             /\ btv'.scanline = btv.scanline + 1
             /\ \A r \in Renderers :
                    CallsOf(calls', r, {"NewScanline"}) = << <<r, "NewScanline", btv'.scanline>> >>
        ELSE /\ btv'.horizPos = btv.horizPos + 1
             /\ \A r \in Renderers : CallsOf(calls', r, {"NewScanline"}) = <<>>]_vars

\* C6: vsyncCount is the number of consecutive most recent colour clocks with
\* VSYNC on (zero again as soon as a Signal arrives with VSYNC off).
C6_VsyncCountIsConsecutive == btv.vsyncCount = vsyncHeld

\* C7: horizPos always lies in -ClocksPerHblank .. ClocksPerVisible-1.
C7_HorizPosInRange ==
    btv.horizPos \in -btv.spec.ClocksPerHblank .. btv.spec.ClocksPerVisible - 1

\* C8: a television using the NTSC specification whose scanline count exceeds
\* maxNTSCscanlines takes the PAL specification.
C8_ReclassifiedAsPAL ==
    btv.scanline > maxNTSCscanlines => btv.spec = SpecPAL

\* C10: after Reset every state value of the television is that of a newly
\* constructed television of the same specification.
C10_ResetIsNewTelevision ==
    op = "Reset" => btv = WithRenderers(NewBasicTelevision(btv.spec.ID), NumRenderers)

\* the methods, in order, of the calls of ms that renderer r receives in c
MethodsOf(c, r, ms) ==
    [i \in DOMAIN CallsOf(c, r, ms) |-> CallsOf(c, r, ms)[i][2]]

C5_WellFormedStream ==
    /\ err = NoError
    /\ ~btv.outOfSpec
    /\ gen.newFrames <= 1
    /\ (gen.iter > 0 /\ gen.line = 0 /\ gen.clk = 0) =>
           /\ gen.newFrames = 1
           /\ gen.newScanlines = 262

\* C5 witness: an iteration of the frame is complete.
C5_Witness ==
    /\ gen.iter = 1 /\ gen.line = 0 /\ gen.clk = 0
    /\ gen.newFrames = 1 /\ gen.newScanlines = 262
    /\ btv.frameNum = 1 /\ btv.scanline = 261

Bit(a, i) == (a \div (2 ^ i)) % 2

\* the position polycounter: 6 bits, reset point 39, four phases per count
PositionResetPoint == 39
MaxPhase == 3

PolycounterReset == [Count |-> 0, Phase |-> 0]

\* Tick() advances by one phase; it returns true (cycled) when a full cycle is
\* complete and the counter is back at its start
PolycounterTick(pk) ==
    IF pk.Count = PositionResetPoint /\ pk.Phase = MaxPhase
    THEN [pk |-> PolycounterReset, cycled |-> TRUE]
    ELSE IF pk.Phase = MaxPhase
         THEN [pk |-> [Count |-> pk.Count + 1, Phase |-> 0], cycled |-> FALSE]
         ELSE [pk |-> [pk EXCEPT !.Phase = @ + 1], cycled |-> FALSE]

\* sp.resetFuture when no reset is scheduled
nil == -1

\* delay.ForceReset: the values tried for it
ForceResetValues == {1, 2}

newSprite ==
    [ position             |-> PolycounterReset,
      resetPixel           |-> 0,
      currentPixel         |-> 0,
      graphicsScanCounter  |-> 8 + 1,
      graphicsScanMax      |-> 8,
      graphicsScanOff      |-> 8 + 1,
      horizMovement        |-> 0,
      moreMovementRequired |-> FALSE,
      resetFuture          |-> nil,
      forceReset           |-> 0 ]

\* pixel is what colorClock.Pixel() returns at the time of the call
resetPosition_CurrentKept(s, pixel) ==
    [s EXCEPT !.position = PolycounterReset, !.resetPixel = pixel]

resetPosition(s, pixel) ==
    [s EXCEPT !.position = PolycounterReset,
              !.resetPixel = pixel,
              !.currentPixel = pixel]

checkForGfxStart(s, triggerList) ==
    LET r == PolycounterTick(s.position)
        s1 == [s EXCEPT !.position = r.pk]
    IN  IF r.cycled
        THEN [sp |-> s1, start |-> TRUE, copy |-> FALSE]
        ELSE IF \E i \in 1..Len(triggerList) :
                    triggerList[i] = s1.position.Count /\ s1.position.Phase = 0
             THEN [sp |-> s1, start |-> TRUE, copy |-> TRUE]
             ELSE [sp |-> s1, start |-> FALSE, copy |-> FALSE]

startDrawing(s) == [s EXCEPT !.graphicsScanCounter = 0]

isDrawing(s) == s.graphicsScanCounter <= s.graphicsScanMax

tickGraphicsScan(s) ==
    IF isDrawing(s) THEN [s EXCEPT !.graphicsScanCounter = @ + 1] ELSE s

\* the tick function of the sprite's owner: the sprite's normal tick
spriteTick(s, triggerList) ==
    LET r == checkForGfxStart(s, triggerList)
    IN  IF r.start THEN startDrawing(r.sp) ELSE tickGraphicsScan(r.sp)

\* the two statements "sp.currentPixel--; if sp.currentPixel < 0 {...}"
adjustPosition(s) ==
    [s EXCEPT !.currentPixel = IF @ - 1 < 0 THEN 159 ELSE @ - 1]

RECURSIVE forceHMOVELoop(_, _, _, _)
forceHMOVELoop(s, i, hm, triggerList) ==
    IF i < hm
    THEN forceHMOVELoop(spriteTick(adjustPosition(s), triggerList),
                        i + 1, hm, triggerList)
    ELSE s

\* returns the sprite and the number of calls of spriteTick
forceHMOVE(s, adjustment, triggerList) ==
    LET hm == s.horizMovement - (15 - adjustment)
    IN  [sp |-> forceHMOVELoop(s, 0, hm, triggerList),
         ticks |-> IF hm > 0 THEN hm ELSE 0]

prepareForHMOVE_NoComb(s) ==
    [s EXCEPT !.moreMovementRequired = TRUE]

prepareForHMOVE(s) ==
    [s EXCEPT !.moreMovementRequired = TRUE, !.currentPixel = @ + 8]

compareBits_ThreeBits(a, b) ==
    \/ Bit(a, 2) = Bit(b, 2)
    \/ Bit(a, 1) = Bit(b, 1)
    \/ Bit(a, 0) = Bit(b, 0)

compareBits(a, b) ==
    \/ Bit(a, 3) = Bit(b, 3)
    \/ Bit(a, 2) = Bit(b, 2)
    \/ Bit(a, 1) = Bit(b, 1)
    \/ Bit(a, 0) = Bit(b, 0)

\* resetFuture.Force(): the scheduled reset happens now and is no longer
\* pending
ForceFuture(s, pixel) ==
    [resetPosition(s, pixel) EXCEPT !.resetFuture = nil]

\* the "Keystone Kapers" construct of resolveHMOVE; ForceReset is
\* delay.ForceReset
resolveForceReset(s, ForceReset, pixel) ==
    IF s.resetFuture # nil
    THEN IF s.forceReset = 1
         THEN [sp |-> [ForceFuture(s, pixel) EXCEPT !.forceReset = 0],
               forced |-> 1]
         ELSE IF s.forceReset = 0
              THEN [sp |-> [s EXCEPT !.forceReset = ForceReset], forced |-> 0]
              ELSE [sp |-> [s EXCEPT !.forceReset = @ - 1], forced |-> 0]
    ELSE [sp |-> s, forced |-> 0]

\* returns the sprite, the number of calls of spriteTick and the number of
\* calls of resetFuture.Force()
resolveHMOVE(s, count, ForceReset, pixel, triggerList) ==
    LET s1 == [s EXCEPT !.moreMovementRequired =
                   @ /\ compareBits(count % 256, s.horizMovement % 256)]
    IN  IF s1.moreMovementRequired
        THEN LET f == resolveForceReset(s1, ForceReset, pixel)
             IN  [sp |-> spriteTick(adjustPosition(f.sp), triggerList),
                  ticks |-> 1,
                  forced |-> f.forced]
        ELSE [sp |-> s1, ticks |-> 0, forced |-> 0]

\* the value of the horizontal movement register as MachineInfo() shows it:
\* (sp.horizMovement << 4) ^ 0x80
HMRegister(hm) ==
    LET v == hm * 16
    IN  IF Bit(v, 7) = 1 THEN v - 128 ELSE v + 128

\* a write of value v to the horizontal movement register, normalised into the
\* 0 to 15 range
HorizMovementOf(v) ==
    CHOOSE hm \in 0..15 : HMRegister(hm) = (v \div 16) * 16

\* the television and the other parts play no part in the sprite's steps
NoTelevision ==
    /\ btv = Absent /\ sig = Absent /\ err = Absent /\ calls = Absent
    /\ vsyncHeld = Absent /\ gen = Absent

\* the values of colorClock.Pixel() tried at a reset of the position
ResetPixels == {0, 159}

\* the values of colorClock.Pixel() tried when a scheduled reset happens
ScheduledResetPixels == {159}

\* the trigger lists (start positions of the copies of a sprite) tried
TriggerLists == {<<>>, <<3>>, <<3, 7>>}

\* the delays, in cycles of the scheduler, tried for a scheduled reset
ResetDelays == {1}

\* the values written to a horizontal movement register
HMValues == {v * 16 : v \in 0..15}

NoObservation ==
    [ ForceReset |-> 1,    \* the value of delay.ForceReset
      ticks      |-> 0,    \* calls of spriteTick made by the most recent call
      forced     |-> 0,    \* calls of resetFuture.Force() made by it
      count      |-> 0,    \* the counter value given to it (resolveHMOVE)
      next       |-> 0,    \* the next counter value of the HMOVE; 0: no HMOVE
      hmoveStart |-> 0,    \* currentPixel before the HMOVE began
      hmoveTicks |-> 0,    \* calls of spriteTick since the HMOVE began
      clean      |-> TRUE, \* nothing but resolveHMOVE since the HMOVE began
      moving     |-> 0,    \* moving ticks since the pending reset was scheduled
      hmoves     |-> 0,    \* calls of prepareForHMOVE so far
      resets     |-> 0,    \* resets scheduled so far
      writes     |-> 0,    \* writes of the HM register so far
      forces     |-> 0 ]   \* calls of forceHMOVE so far

InitSprite(pixel, ForceReset) ==
    /\ sp = resetPosition(newSprite, pixel)
    /\ spObs = [NoObservation EXCEPT !.ForceReset = ForceReset]
    /\ op = "resetPosition"
    /\ NoTelevision
    /\ result = Absent /\ mem = Absent /\ memObs = Absent
    /\ NoDebugger /\ NoCommandline /\ NoDatabase
    /\ NoSymbols /\ NoRegister

SpriteStep(name, s, o) ==
    /\ sp' = s
    /\ spObs' = o
    /\ op' = name
    /\ UNCHANGED <<tvVars, cpuVars, memVars, debuggerVars, cmdlineVars,
                 databaseVars, symbolsVars, registerVars>>

\* ---- SpecSpriteScan: a sprite that is positioned and ticked, without HMOVE
ScanReset ==
    \E pixel \in ResetPixels :
        SpriteStep("resetPosition", resetPosition(sp, pixel), spObs)

ScanTick ==
    \E triggerList \in TriggerLists :
        SpriteStep("spriteTick", spriteTick(sp, triggerList),
                   [spObs EXCEPT !.ticks = 1])

ScanWriteHM ==
    \E v \in HMValues :
        SpriteStep("writeHM",
                   [sp EXCEPT !.horizMovement = HorizMovementOf(v)], spObs)

InitScan == \E pixel \in ResetPixels : InitSprite(pixel, 1)
NextScan == ScanReset \/ ScanTick \/ ScanWriteHM
SpecSpriteScan == InitScan /\ [][NextScan]_vars

\* ---- SpecSpriteHMOVE: HMOVE sequences with no reset pending
\* ---- SpecSpriteReset: HMOVE sequences while resets are scheduled
MaxHMOVEs == 2
MaxResetHmoves == 1
MaxResets == 2
MaxAdjustment == 15
MaxHMWrites == 1
MaxForceHMOVEs == 1
MinAdjustment == 13

HmoveWriteHM ==
    /\ spObs.next = 0
    /\ spObs.writes < MaxHMWrites
    /\ \E v \in HMValues :
        SpriteStep("writeHM",
                   [sp EXCEPT !.horizMovement = HorizMovementOf(v)],
                   [spObs EXCEPT !.ticks = 0, !.forced = 0, !.count = 0,
                                 !.writes = @ + 1])

PrepareStep ==
    /\ spObs.next = 0
    /\ SpriteStep("prepareForHMOVE", prepareForHMOVE(sp),
                  [spObs EXCEPT !.ticks = 0, !.forced = 0, !.count = 0,
                                !.next = 15,
                                !.hmoveStart = sp.currentPixel,
                                !.hmoveTicks = 0,
                                !.clean = (sp.resetFuture = nil),
                                !.hmoves = @ + 1])

HmovePrepare ==
    /\ spObs.hmoves < MaxHMOVEs
    /\ PrepareStep

HmoveResolve ==
    /\ spObs.next > 0
    /\ \E pixel \in ScheduledResetPixels :
        LET r == resolveHMOVE(sp, spObs.next, spObs.ForceReset, pixel, <<>>)
        IN  SpriteStep("resolveHMOVE", r.sp,
                       [spObs EXCEPT !.ticks = r.ticks, !.forced = r.forced,
                                     !.count = spObs.next,
                                     !.next = @ - 1,
                                     !.hmoveTicks = @ + r.ticks,
                                     !.moving = IF sp.resetFuture # nil
                                                THEN @ + r.ticks ELSE @])

HmoveForce ==
    /\ spObs.forces < MaxForceHMOVEs
    /\ spObs.next = 0
    /\ \E adjustment \in MinAdjustment..MaxAdjustment :
        LET r == forceHMOVE(sp, adjustment, <<>>)
        IN  SpriteStep("forceHMOVE", r.sp,
                       [spObs EXCEPT !.ticks = r.ticks, !.forced = 0,
                                     !.count = 0, !.clean = FALSE,
                                     !.forces = @ + 1])

\* the owner of the sprite schedules a reset of its position
HmoveScheduleReset ==
    /\ sp.resetFuture = nil
    /\ spObs.resets < MaxResets
    /\ \E d \in ResetDelays :
        SpriteStep("scheduleReset", [sp EXCEPT !.resetFuture = d],
                   [spObs EXCEPT !.ticks = 0, !.forced = 0, !.count = 0,
                                 !.clean = FALSE, !.moving = 0,
                                 !.resets = @ + 1])

\* the scheduler's Tick(): the pending reset comes one cycle closer and
\* happens when no cycle remains
HmoveFutureTick ==
    /\ sp.resetFuture # nil
    /\ \E pixel \in ScheduledResetPixels :
        SpriteStep("futureTick",
                   IF sp.resetFuture = 1
                   THEN ForceFuture(sp, pixel)
                   ELSE [sp EXCEPT !.resetFuture = @ - 1],
                   [spObs EXCEPT !.ticks = 0, !.forced = 0, !.count = 0,
                                 !.clean = FALSE])

InitHmove == \E pixel \in ResetPixels : InitSprite(pixel, 1)
NextHmove ==
    \/ HmoveWriteHM
    \/ HmovePrepare
    \/ HmoveResolve
    \/ HmoveForce
SpecSpriteHMOVE == InitHmove /\ [][NextHmove]_vars

\* the HM register is written before the first HMOVE and the first reset
ResetWriteHM ==
    /\ spObs.hmoves = 0
    /\ spObs.resets = 0
    /\ HmoveWriteHM

ResetPrepare ==
    /\ spObs.hmoves < MaxResetHmoves
    /\ PrepareStep

InitReset == \E ForceReset \in ForceResetValues : InitSprite(0, ForceReset)
NextReset ==
    \/ ResetWriteHM
    \/ ResetPrepare
    \/ HmoveResolve
    \/ HmoveScheduleReset
    \/ HmoveFutureTick
SpecSpriteReset == InitReset /\ [][NextReset]_vars

(***************************************************************************)
(* Properties of the sprite                                                *)
(***************************************************************************)

\* C11: a sprite positioned by resetPosition and then only ticked normally
\* (no prepareForHMOVE, resolveHMOVE or forceHMOVE) has currentPixel equal to
\* resetPixel in every state, in particular after a full cycle of its
\* position counter.
C11_CurrentPixelIsResetPixel == sp.currentPixel = sp.resetPixel

\* C11 witness: a tick has just completed a full cycle of the position counter
\* of a sprite positioned at pixel 159.
C11_Witness ==
    /\ op = "spriteTick"
    /\ sp.position = PolycounterReset
    /\ sp.graphicsScanCounter = 0
    /\ sp.resetPixel = 159
    /\ sp.currentPixel = 159

\* one pixel to the left, from 0 to 159 past the edge
PixelToTheLeft(x) == IF x - 1 < 0 THEN 159 ELSE x - 1

\* x pixels after stepping left past the edge as often as needed
WrapLeft(x) == IF x < 0 THEN x + 160 ELSE x

\* a complete HMOVE has just ended: prepareForHMOVE, then resolveHMOVE(n) for
\* n = 15 down to 1 and nothing else, with no reset pending
HmoveComplete ==
    /\ op = "resolveHMOVE"
    /\ spObs.count = 1
    /\ spObs.clean

\* C12: a complete HMOVE with no reset pending calls spriteTick exactly
\* horizMovement times and leaves currentPixel at its value before the HMOVE
\* plus 8 minus horizMovement, wrapping from 0 to 159 when it steps left past
\* the edge; with 0x70 in the HM register (horizMovement 15) the sprite ends 7
\* pixels to the left of where it started.
C12_CompleteHMOVE ==
    HmoveComplete =>
        /\ sp.horizMovement \in 0..15
        /\ spObs.hmoveTicks = sp.horizMovement
        /\ sp.currentPixel = WrapLeft(spObs.hmoveStart + 8 - sp.horizMovement)
        /\ HMRegister(sp.horizMovement) = 112 =>
               /\ sp.horizMovement = 15
               /\ sp.currentPixel = WrapLeft(spObs.hmoveStart - 7)

\* C12 witness: a complete HMOVE with 0x70 in the HM register has moved a
\* sprite from pixel 0 past the left edge.
C12_Witness ==
    /\ HmoveComplete
    /\ HMRegister(sp.horizMovement) = 112
    /\ spObs.hmoveStart = 0
    /\ sp.currentPixel = 153
    /\ spObs.hmoveTicks = 15

\* the HM nibble and the counter value have the same bit in some position of
\* the low nibble
ShareLowNibbleBit(hm, n) == \E i \in 0..3 : Bit(hm, i) = Bit(n, i)

\* C13: during HMOVE, for counter value n the sprite gets one extra tick
\* (currentPixel one to the left, one call of spriteTick) exactly when it still
\* requires movement and its HM nibble and n share a low-nibble bit; once a
\* counter value fails the comparison moreMovementRequired is false and stays
\* false, without further ticks, until the next prepareForHMOVE.
C13_TickWhenBitsShared ==
    [][/\ op' = "resolveHMOVE" =>
            LET moves == /\ sp.moreMovementRequired
                         /\ ShareLowNibbleBit(sp.horizMovement, spObs'.count)
            IN  /\ spObs'.ticks = (IF moves THEN 1 ELSE 0)
                /\ sp'.currentPixel = (IF moves
                                       THEN PixelToTheLeft(sp.currentPixel)
                                       ELSE sp.currentPixel)
                /\ sp'.moreMovementRequired = moves
       /\ (sp'.moreMovementRequired /\ ~sp.moreMovementRequired) =>
              op' = "prepareForHMOVE"]_vars

\* C13 amended: as above, but a tick that forces the pending reset leaves
\* currentPixel one to the left of the new reset position.
C13_TickWhenBitsSharedOrReset ==
    [][/\ op' = "resolveHMOVE" =>
            LET moves == /\ sp.moreMovementRequired
                         /\ ShareLowNibbleBit(sp.horizMovement, spObs'.count)
            IN  /\ spObs'.ticks = (IF moves THEN 1 ELSE 0)
                /\ sp'.currentPixel =
                       (IF ~moves THEN sp.currentPixel
                        ELSE IF spObs'.forced = 0
                             THEN PixelToTheLeft(sp.currentPixel)
                             ELSE PixelToTheLeft(sp'.resetPixel))
                /\ sp'.moreMovementRequired = moves
       /\ (sp'.moreMovementRequired /\ ~sp.moreMovementRequired) =>
              op' = "prepareForHMOVE"]_vars

\* C13 witness: the counter value 7 has just failed the comparison for a
\* sprite with HM nibble 8 that had moved on every value before it.
C13_Witness ==
    /\ op = "resolveHMOVE"
    /\ spObs.count = 7
    /\ sp.horizMovement = 8
    /\ spObs.hmoveTicks = 8
    /\ spObs.ticks = 0
    /\ ~sp.moreMovementRequired

\* C14: in every state of the sprite, also during and after HMOVE, resetPixel
\* and currentPixel are visible pixels, 0..159.
C14_PixelsVisible ==
    /\ sp.resetPixel \in 0..159
    /\ sp.currentPixel \in 0..159

\* C15: with a reset pending, the first moving tick starts the forceReset
\* countdown at delay.ForceReset, each further moving tick decrements it, and
\* the moving tick that finds it at 1 forces the reset, once, and puts
\* forceReset back to 0; a resolveHMOVE that gives the sprite no tick never
\* forces the reset.
C15_ForcedResetCountdown ==
    [][op' = "resolveHMOVE" =>
        /\ spObs'.ticks = 0 => spObs'.forced = 0
        /\ (spObs'.ticks = 1 /\ sp.resetFuture # nil) =>
               IF spObs.moving = 0
               THEN sp'.forceReset = spObs.ForceReset /\ spObs'.forced = 0
               ELSE IF sp.forceReset = 1
                    THEN /\ spObs'.forced = 1
                         /\ sp'.forceReset = 0
                         /\ sp'.resetFuture = nil
                    ELSE /\ sp'.forceReset = sp.forceReset - 1
                         /\ spObs'.forced = 0]_vars

(***************************************************************************)
(* Part 3: Result.IsValid                                                  *)
(***************************************************************************)

\* an error of category InvalidResult
InvalidResult(msg) == [errno |-> "InvalidResult", msg |-> msg]

\* the nil error
nilError == [errno |-> "nil", msg |-> ""]

\* the check of the number of cycles, made when no CPU bug has been triggered
IsValidCycles_BranchThreeExtra(r) ==
    IF r.Defn.IsBranch
    THEN IF /\ r.ActualCycles # r.Defn.Cycles
            /\ r.ActualCycles # r.Defn.Cycles + 1
            /\ r.ActualCycles # r.Defn.Cycles + 2
            /\ r.ActualCycles # r.Defn.Cycles + 3
         THEN InvalidResult("number of cycles wrong (branch)")
         ELSE nilError
    ELSE IF r.Defn.PageSensitive
         THEN IF /\ r.PageFault
                 /\ r.ActualCycles # r.Defn.Cycles
                 /\ r.ActualCycles # r.Defn.Cycles + 1
              THEN InvalidResult("number of cycles wrong (page sensitive)")
              ELSE nilError
         ELSE IF r.ActualCycles # r.Defn.Cycles
              THEN InvalidResult("number of cycles wrong")
              ELSE nilError

IsValidCycles(r) ==
    IF r.Defn.IsBranch
    THEN IF /\ r.ActualCycles # r.Defn.Cycles
            /\ r.ActualCycles # r.Defn.Cycles + 1
            /\ r.ActualCycles # r.Defn.Cycles + 2
         THEN InvalidResult("number of cycles wrong (branch)")
         ELSE nilError
    ELSE IF r.Defn.PageSensitive
         THEN IF /\ r.PageFault
                 /\ r.ActualCycles # r.Defn.Cycles
                 /\ r.ActualCycles # r.Defn.Cycles + 1
              THEN InvalidResult("number of cycles wrong (page sensitive)")
              ELSE nilError
         ELSE IF r.ActualCycles # r.Defn.Cycles
              THEN InvalidResult("number of cycles wrong")
              ELSE nilError

IsValid_BugSkipsByteCount(r) ==
    IF ~r.Final
    THEN InvalidResult("execution not finalised (bad opcode?)")
    ELSE IF ~r.Defn.PageSensitive /\ r.PageFault
    THEN InvalidResult("unexpected page fault")
    ELSE IF r.CPUBug = "" /\ r.ByteCount # r.Defn.Bytes
    THEN InvalidResult("unexpected number of bytes read during decode")
    ELSE IF r.CPUBug = ""
    THEN IsValidCycles(r)
    ELSE nilError

IsValid(r) ==
    IF ~r.Final
    THEN InvalidResult("execution not finalised (bad opcode?)")
    ELSE IF ~r.Defn.PageSensitive /\ r.PageFault
    THEN InvalidResult("unexpected page fault")
    ELSE IF r.ByteCount # r.Defn.Bytes
    THEN InvalidResult("unexpected number of bytes read during decode")
    ELSE IF r.CPUBug = ""
    THEN IsValidCycles(r)
    ELSE nilError

\* ---- SpecIsValid: a Result of the CPU is checked
MaxBytes == 2
MaxCycles == 3
MaxExtraCycles == 3

\* the instruction definitions tried
Definitions ==
    [ Bytes : 1..MaxBytes,
      Cycles : 2..MaxCycles,
      PageSensitive : BOOLEAN,
      IsBranch : BOOLEAN ]

\* the results tried
Results ==
    [ Defn : Definitions,
      Final : BOOLEAN,
      PageFault : BOOLEAN,
      ByteCount : 1..MaxBytes,
      ActualCycles : 1..(MaxCycles + MaxExtraCycles),
      CPUBug : {"", "indirect addressing bug"} ]

NotChecked == [errno |-> "not checked", msg |-> ""]

InitIsValid ==
    /\ \E r \in Results : result = [r |-> r, err |-> NotChecked]
    /\ op = "Execute"
    /\ NoTelevision
    /\ sp = Absent /\ spObs = Absent /\ mem = Absent /\ memObs = Absent
    /\ NoDebugger /\ NoCommandline /\ NoDatabase
    /\ NoSymbols /\ NoRegister

IsValidStep ==
    /\ result.err = NotChecked
    /\ result' = [result EXCEPT !.err = IsValid(result.r)]
    /\ op' = "IsValid"
    /\ UNCHANGED <<tvVars, spriteVars, memVars, debuggerVars, cmdlineVars,
                 databaseVars, symbolsVars, registerVars>>

NextIsValid == IsValidStep
SpecIsValid == InitIsValid /\ [][NextIsValid]_vars

(***************************************************************************)
(* Properties of Result.IsValid                                            *)
(***************************************************************************)
Accepted == op = "IsValid" /\ result.err = nilError
Rejected ==
    /\ op = "IsValid"
    /\ result.err.errno = "InvalidResult"

\* C16: with no CPU bug flagged, a page-sensitive instruction that is not a
\* branch is accepted only when ActualCycles equals Defn.Cycles, or is one more
\* and PageFault is set; every other number of cycles, with or without a page
\* fault, is rejected with an InvalidResult error.
C16_PageSensitiveCycles ==
    LET r == result.r
        cyclesOK == \/ r.ActualCycles = r.Defn.Cycles
                    \/ r.ActualCycles = r.Defn.Cycles + 1 /\ r.PageFault
    IN  (/\ op = "IsValid"
         /\ r.CPUBug = ""
         /\ r.Defn.PageSensitive
         /\ ~r.Defn.IsBranch) =>
            /\ Accepted => cyclesOK
            /\ ~cyclesOK => Rejected

\* C17: with no CPU bug flagged, a branch is accepted only when ActualCycles
\* is Defn.Cycles, Defn.Cycles+1 or Defn.Cycles+2, and an instruction that is
\* neither a branch nor page-sensitive only when ActualCycles equals
\* Defn.Cycles; any other number of cycles is rejected with InvalidResult.
C17_BranchAndPlainCycles ==
    LET r == result.r
        cyclesOK == IF r.Defn.IsBranch
                    THEN r.ActualCycles \in r.Defn.Cycles..(r.Defn.Cycles + 2)
                    ELSE r.ActualCycles = r.Defn.Cycles
    IN  (/\ op = "IsValid"
         /\ r.CPUBug = ""
         /\ r.Defn.IsBranch \/ ~r.Defn.PageSensitive) =>
            /\ Accepted => cyclesOK
            /\ ~cyclesOK => Rejected

\* C17 witness: a branch that took two cycles more than its definition has
\* been accepted.
C17_Witness ==
    /\ Accepted
    /\ result.r.CPUBug = ""
    /\ result.r.Defn.IsBranch
    /\ result.r.ActualCycles = result.r.Defn.Cycles + 2

\* the three checks that come before the check of the cycles
PassesBasicChecks(r) ==
    /\ r.Final
    /\ r.ByteCount = r.Defn.Bytes
    /\ r.PageFault => r.Defn.PageSensitive

\* C18: a flagged CPU bug suppresses the check of the cycles and nothing else:
\* a result that is not Final, has ByteCount different from Defn.Bytes or a
\* PageFault for a definition that is not page-sensitive is rejected with
\* InvalidResult whether or not CPUBug is set; a result that passes these
\* three checks with CPUBug set is accepted for any ActualCycles.
C18_BugSkipsOnlyCycles ==
    op = "IsValid" =>
        /\ ~PassesBasicChecks(result.r) => Rejected
        /\ (PassesBasicChecks(result.r) /\ result.r.CPUBug # "") => Accepted

\* C18 witness: a result with a CPU bug flagged and three cycles too many has
\* been accepted.
C18_Witness ==
    /\ Accepted
    /\ result.r.CPUBug # ""
    /\ ~result.r.Defn.IsBranch
    /\ result.r.ActualCycles = result.r.Defn.Cycles + 3

(***************************************************************************)
(* Part 4: the CPU bus of VCSMemory                                        *)
(*                                                                         *)
(* The memory areas behind the bus (TIA, RIOT, PIA, cartridge) are not     *)
(* modelled: what an area returns for a Read or a Write, and what the      *)
(* cartridge returns for Listen, are inputs of the step.  The address map  *)
(* and the data masks are outside the files modelled and follow the VCS    *)
(* memory map.                                                             *)
(***************************************************************************)

\* bitwise operations on bytes
And8(a, b) ==
    LET bit(i) == Bit(a, i) * Bit(b, i) * (2 ^ i)
    IN  bit(0) + bit(1) + bit(2) + bit(3) + bit(4) + bit(5) + bit(6) + bit(7)

Or8(a, b) == a + b - And8(a, b)

\* a ^ 0xff
Not8(a) == 255 - a

\* address & m, for 16 bit values
RECURSIVE And16(_, _)
And16(a, m) ==
    IF a = 0 \/ m = 0 THEN 0
    ELSE (a % 2) * (m % 2) + 2 * And16(a \div 2, m \div 2)

\* memorymap.MapAddress: the primary address and the area of a CPU address
MapAddress(address, read) ==
    IF And16(address, 4096) # 0
    THEN [ma |-> And16(address, 8191), area |-> "Cartridge"]
    ELSE IF And16(address, 640) = 640
    THEN [ma |-> And16(address, 671), area |-> "RIOT"]
    ELSE IF And16(address, 128) = 128
    THEN [ma |-> And16(address, 255), area |-> "PIA"]
    ELSE IF read
    THEN [ma |-> And16(address, 15), area |-> "TIA"]
    ELSE [ma |-> And16(address, 63), area |-> "TIA"]

\* an area value that GetArea does not know
UndefinedArea == "Undefined"

MemoryError == "MemoryError: area not mapped correctly"

\* GetArea: the area or an error
GetArea(area) ==
    IF area \in {"TIA", "PIA", "RIOT", "Cartridge"}
    THEN [area |-> area, err |-> NoError]
    ELSE [area |-> area, err |-> MemoryError]

\* addresses.DataMasks: the bits of a read that come from the chip, for the
\* collision registers and the input ports of the TIA
DataMasks ==
    << 192, 192, 192, 192, 192, 192, 192, 192, 128, 128, 128, 128, 128, 128 >>

NewVCSMemory ==
    [ LastAccessAddress |-> 0,
      LastAccessValue   |-> 0,
      LastAccessWrite   |-> FALSE,
      LastAccessID      |-> 0,
      accessCount       |-> 0 ]

\* the masking of the data-bus in Read; ma is an index from 0 into DataMasks
MaskData_HighByteOnly(address, ma, data) ==
    IF ma < Len(DataMasks)
    THEN Or8(And8(data, DataMasks[ma + 1]),
             And8((address \div 256) % 256, Not8(DataMasks[ma + 1])))
    ELSE data

MaskData(address, ma, data) ==
    IF ma < Len(DataMasks)
    THEN IF address > 255
         THEN Or8(And8(data, DataMasks[ma + 1]),
                  And8((address \div 256) % 256, Not8(DataMasks[ma + 1])))
         ELSE Or8(And8(data, DataMasks[ma + 1]),
                  And8(address % 256, Not8(DataMasks[ma + 1])))
    ELSE data

\* the note of the access for the debugger
NoteAccess_IDKept(m, ma, write, data) ==
    [m EXCEPT !.LastAccessAddress = ma,
              !.LastAccessWrite = write,
              !.LastAccessValue = data,
              !.accessCount = @ + 1]

NoteAccess(m, ma, write, data) ==
    [m EXCEPT !.LastAccessAddress = ma,
              !.LastAccessWrite = write,
              !.LastAccessValue = data,
              !.LastAccessID = m.accessCount,
              !.accessCount = @ + 1]

\* Read: ar is the area MapAddress gave, chip what the area's Read returns
Read(m, address, ar, chip) ==
    LET ma == MapAddress(address, TRUE).ma
        area == GetArea(ar)
    IN  IF area.err # NoError
        THEN [mem |-> m, data |-> 0, err |-> area.err, calls |-> <<>>]
        ELSE LET data == MaskData(address, ma, chip.data)
             IN  [mem |-> NoteAccess(m, ma, FALSE, data),
                  data |-> data,
                  err |-> chip.err,
                  calls |-> <<>>]

\* the calls Write makes on the cartridge and on the area
CartListen(address, data) == <<"Cart.Listen", address, data>>
AreaWrite(area, ma, data) == <<"Write", area, ma, data>>

\* Write: listen is what Cart.Listen returns, chipErr what the area's Write
\* returns
Write(m, address, data, ar, listen, chipErr) ==
    LET ma == MapAddress(address, FALSE).ma
        area == GetArea(ar)
    IN  IF area.err # NoError
        THEN [mem |-> m, err |-> area.err, calls |-> <<>>]
        ELSE IF listen.err # NoError /\ ~listen.atari
        THEN [mem |-> NoteAccess(m, ma, TRUE, data),
              err |-> listen.err,
              calls |-> <<CartListen(address, data)>>]
        ELSE [mem |-> NoteAccess(m, ma, TRUE, data),
              err |-> chipErr,
              calls |-> <<CartListen(address, data),
                          AreaWrite(area.area, ma, data)>>]

\* ---- SpecMemory: reads and writes on the CPU bus
MaxAccesses == 2

\* the CPU addresses tried
Addresses == {2, 13, 15, 128, 640, 4096, 11533}

\* the bytes tried, for the chips and for the CPU
Bytes == {0, 255, 165}

\* the bytes the CPU writes
WriteBytes == {0, 165}

\* what the Read of an area returns
ChipReads ==
    [data : Bytes, err : {NoError}] \cup
        {[data |-> 0, err |-> "BusError: address unreadable"]}

\* what Cart.Listen returns
ListenResults ==
    { [err |-> NoError, atari |-> TRUE],
      [err |-> "UnwritableAddress", atari |-> TRUE],
      [err |-> "CartridgeError", atari |-> TRUE],
      [err |-> "cartridge failure", atari |-> FALSE] }

\* what the Write of an area returns
ChipWriteErrors == {NoError, "BusError: address unwritable"}

\* the areas MapAddress is taken to give for an address
AreasFor(address, read) == {MapAddress(address, read).area, UndefinedArea}

NoAccess ==
    [ address  |-> 0,      \* the address given to the most recent call
      ma       |-> 0,      \* its mapped address
      chip     |-> 0,      \* the byte returned by the area (Read)
      data     |-> 0,      \* the byte returned to the CPU or given to Write
      reached  |-> FALSE,  \* whether the area was resolved
      err      |-> NoError,\* what the call returned
      calls    |-> <<>>,   \* the calls made on the cartridge and the area (Write)
      listen   |-> NoError,\* what Cart.Listen returned (Write)
      chipErr  |-> NoError,\* what the area's Write returns (Write)
      accesses |-> 0 ]     \* the calls so far that reached an area

InitMemory ==
    /\ mem = NewVCSMemory
    /\ memObs = NoAccess
    /\ op = "NewVCSMemory"
    /\ NoTelevision
    /\ sp = Absent /\ spObs = Absent /\ result = Absent
    /\ NoDebugger /\ NoCommandline /\ NoDatabase
    /\ NoSymbols /\ NoRegister

MemoryStep(name, r, o) ==
    /\ mem' = r.mem
    /\ memObs' = [o EXCEPT !.err = r.err,
                           !.calls = r.calls,
                           !.accesses = IF o.reached THEN memObs.accesses + 1
                                        ELSE memObs.accesses]
    /\ op' = name
    /\ UNCHANGED <<tvVars, spriteVars, cpuVars, debuggerVars, cmdlineVars,
                 databaseVars, symbolsVars, registerVars>>

ReadStep ==
    /\ mem.accessCount < MaxAccesses
    /\ \E address \in Addresses, chip \in ChipReads :
        \E ar \in AreasFor(address, TRUE) :
            LET r == Read(mem, address, ar, chip)
            IN  MemoryStep("Read", r,
                    [NoAccess EXCEPT !.address = address,
                                     !.ma = MapAddress(address, TRUE).ma,
                                     !.chip = chip.data,
                                     !.data = r.data,
                                     !.reached = (ar # UndefinedArea)])

WriteStep ==
    /\ mem.accessCount < MaxAccesses
    /\ \E address \in Addresses, data \in WriteBytes, listen \in ListenResults,
          chipErr \in ChipWriteErrors :
        \E ar \in AreasFor(address, FALSE) :
            LET r == Write(mem, address, data, ar, listen, chipErr)
            IN  MemoryStep("Write", r,
                    [NoAccess EXCEPT !.address = address,
                                     !.ma = MapAddress(address, FALSE).ma,
                                     !.data = data,
                                     !.listen = listen.err,
                                     !.chipErr = chipErr,
                                     !.reached = (ar # UndefinedArea)])

NextMemory == ReadStep \/ WriteStep
SpecMemory == InitMemory /\ [][NextMemory]_vars

(***************************************************************************)
(* Properties of the CPU bus                                               *)
(***************************************************************************)

\* C19: after every Read or Write on the CPU bus that reaches a memory area
\* LastAccessAddress is the mapped address, LastAccessValue the byte returned
\* to the CPU (after masking) or written, LastAccessWrite tells whether it was
\* a write, and LastAccessID is greater than the id of every earlier access:
\* it goes up by exactly one per access, from 0.  An access whose area cannot
\* be resolved leaves the record and the counter as they were.
C19_LastAccessRecorded ==
    [][op' \in {"Read", "Write"} =>
        IF memObs'.reached
        THEN /\ mem'.LastAccessAddress = memObs'.ma
             /\ mem'.LastAccessValue = memObs'.data
             /\ mem'.LastAccessWrite = (op' = "Write")
             /\ mem'.LastAccessID = memObs.accesses
             /\ memObs.accesses > 0 =>
                    mem'.LastAccessID = mem.LastAccessID + 1
        ELSE mem' = mem]_vars

\* C19 witness: a masked read follows another access.
C19_Witness ==
    /\ op = "Read"
    /\ memObs.reached
    /\ memObs.accesses = 2
    /\ mem.LastAccessID = 1
    /\ memObs.data # memObs.chip
    /\ mem.LastAccessValue = memObs.data

\* the read of the most recent step reached an area
ReadReached == op = "Read" /\ memObs.reached

C21_ListenBeforeAreaWrite ==
    (op = "Write" /\ memObs.reached) =>
        /\ memObs.calls # <<>>
        /\ memObs.calls[1] = CartListen(memObs.address, memObs.data)
        /\ IF memObs.listen \in {NoError, "UnwritableAddress"}
           THEN /\ Len(memObs.calls) = 2
                /\ memObs.calls[2] =
                       AreaWrite(MapAddress(memObs.address, FALSE).area,
                                 memObs.ma, memObs.data)
                /\ memObs.err = memObs.chipErr
           ELSE /\ Len(memObs.calls) = 1
                /\ memObs.err = memObs.listen

(***************************************************************************)
(* Part 5: the input loop of the debugger (Debugger.inputLoop and          *)
(* Debugger.handleInterrupt).  Control is at the top of the for loop of    *)
(* the outer inputLoop ("inputLoop"), inside vcs.Step between two video    *)
(* cycles ("Step"), at the top of the for loop of an inputLoop started by  *)
(* vcsStepVideo ("videoLoop"), or the outer inputLoop has returned.  The   *)
(* commands OnHalt and OnStep are not set.                                 *)
(***************************************************************************)
QuantumCPU == "QuantumCPU"
QuantumVideo == "QuantumVideo"

\* an error value with nothing wrapped in it
Err(errno) == [errno |-> errno, msg |-> ""]

UserInterrupt == Err("UserInterrupt")
UserQuit == Err("UserQuit")
ScriptEnd == Err("ScriptEnd")
GUIEventError == Err("GUIEventError")
EOF == Err("io.EOF")

\* errors.New(errors.DebuggerError, err)
DebuggerError(e) == [errno |-> "DebuggerError", msg |-> e.msg]

\* errors.IsAny: the error is an AtariError
IsAny(e) ==
    e.errno \in {"UserInterrupt", "UserQuit", "ScriptEnd", "GUIEventError",
                 "DebuggerError", "InvalidResult", "InputError",
                 "UnimplementedInstruction"}

\* the content of dbg.input: a command of len bytes, then what was there before
Input(text, len) == [text |-> text, len |-> len]

\* []byte("SCRIPT END")
ScriptEndInput == Input("SCRIPT END", 10)

\* string(dbg.input[:n]): the command when n is its length, something that is
\* no command otherwise
NoCommand == "?"
InputSlice(input, n) == IF n = input.len THEN input.text ELSE NoCommand

\* the commands tried
Commands ==
    { Input("STEP", 4), Input("RUN", 3), Input("HELP", 4),
      Input("SCRIPT RECORD f", 15), ScriptEndInput,
      Input("QUANTUM VIDEO", 13), Input("QUANTUM CPU", 11) }

\* dbg.parseInput: what the command does to the debugger and whether the
\* emulation is to continue
parseInput(d, text) ==
    CASE text = "STEP" -> [dbg |-> d, continue |-> TRUE]
      [] text = "RUN" ->
            [dbg |-> [d EXCEPT !.runUntilHalt = TRUE], continue |-> TRUE]
      [] text = "HELP" -> [dbg |-> d, continue |-> FALSE]
      [] text = "SCRIPT RECORD f" ->
            [dbg |-> [d EXCEPT !.scriptActive = TRUE], continue |-> FALSE]
      [] text = "SCRIPT END" ->
            [dbg |-> [d EXCEPT !.scriptActive = FALSE], continue |-> FALSE]
      [] text = "QUANTUM VIDEO" ->
            [dbg |-> [d EXCEPT !.quantum = QuantumVideo], continue |-> FALSE]
      [] text = "QUANTUM CPU" ->
            [dbg |-> [d EXCEPT !.quantum = QuantumCPU], continue |-> FALSE]
      [] OTHER -> [dbg |-> d, continue |-> FALSE]

\* what a pass of the loop leaves: the debugger, where control goes ("loop",
\* "return" or "Step"), the error returned and what was seen on the way
Outcome(d, out, e, o) == [dbg |-> d, out |-> out, err |-> e, obs |-> o]

NotParsed == "-"

\* the Effect of the definition of an instruction
Flow == "Flow"
Subroutine == "Subroutine"
Interrupt == "Interrupt"
ReadEffect == "Read"

\* what is read of dbg.vcs.CPU.LastResult: Defn.Effect and Final
LastResult(effect, final) == [Effect |-> effect, Final |-> final]
NoLastResult == LastResult(ReadEffect, TRUE)

\* what is seen of a pass: the command parsed, whether handleInterrupt was
\* called, whether the pass came to the check for breakpoints and traps
\* (reached) and made it (checked), haltEmulation, and whether ReqSetPause
\* was sent with true (pause) and with false (unpause)
NothingSeen ==
    [ parsed |-> NotParsed, interrupted |-> FALSE, reached |-> FALSE,
      checked |-> FALSE, halt |-> FALSE, pause |-> FALSE, unpause |-> FALSE ]

\* handleInterrupt: confirm is what the TermRead of the confirmation gives.
\* inputLen is a parameter of the function: the 11 assigned to it stays in
\* the function.
handleInterrupt(d, inputLen, confirm) ==
    IF d.scriptActive
    THEN [d EXCEPT !.input = ScriptEndInput]
    ELSE IF ~d.interactive
    THEN [d EXCEPT !.running = FALSE]
    ELSE LET byte == IF confirm.err = UserInterrupt THEN "y" ELSE confirm.byte
         IN  IF byte \in {"y", "Y"}
             THEN [d EXCEPT !.running = FALSE]
             ELSE d

Continue_StepInVideoCycle(d, videoCycle, o) ==
    IF d.continueEmulation
    THEN Outcome(d, "Step", nilError, o)
    ELSE Outcome(d, "loop", nilError, o)

\* the end of a pass: if dbg.continueEmulation { ... }, up to the call of
\* vcs.Step
Continue(d, videoCycle, o) ==
    IF d.continueEmulation
    THEN IF videoCycle
         THEN Outcome(d, "return", nilError, o)
         ELSE Outcome(d, "Step", nilError, o)
    ELSE Outcome(d, "loop", nilError, o)

\* a pass from "if inputLen > 0" on
ParseAndContinue(d, videoCycle, inputLen, in, o) ==
    LET text == InputSlice(d.input, inputLen - 1)
        p == IF inputLen > 0
             THEN parseInput(d, text)
             ELSE [dbg |-> d, continue |-> d.continueEmulation]
        d1 == [p.dbg EXCEPT !.continueEmulation = p.continue]
        d2 == IF in.checkTerm
              THEN [d1 EXCEPT !.continueEmulation = TRUE, !.runUntilHalt = TRUE]
              ELSE d1
        o1 == IF inputLen > 0 THEN [o EXCEPT !.parsed = text] ELSE o
        unpause == ~in.checkTerm /\ d2.continueEmulation
        o2 == [o1 EXCEPT !.unpause = unpause]
    IN  IF unpause /\ in.unpauseErr # nilError
        THEN Outcome(d2, "return", in.unpauseErr, o2)
        ELSE Continue(d2, videoCycle, o2)

\* a pass from "if haltEmulation || checkTerm" on
Halt(d, videoCycle, haltEmulation, in, seen) ==
    LET o == [seen EXCEPT !.pause = haltEmulation]
    IN
    IF haltEmulation /\ in.pauseErr # nilError
    THEN Outcome(d, "return", in.pauseErr, o)
    ELSE LET d1 == [d EXCEPT !.runUntilHalt = FALSE, !.haltImmediately = FALSE]
             d2 == IF in.read.written
                   THEN [d1 EXCEPT !.input = in.read.input]
                   ELSE d1
             inputLen == in.read.inputLen
             e == IF in.read.err = EOF THEN UserInterrupt ELSE in.read.err
         IN  IF e = nilError
             THEN ParseAndContinue(d2, videoCycle, inputLen, in, o)
             ELSE IF ~IsAny(e)
             THEN Outcome(d2, "return", e, o)
             ELSE CASE e = UserInterrupt ->
                         ParseAndContinue(
                             handleInterrupt(d2, inputLen, in.confirm),
                             videoCycle, inputLen, in,
                             [o EXCEPT !.interrupted = TRUE])
                    [] e = UserQuit ->
                         ParseAndContinue([d2 EXCEPT !.running = FALSE],
                                          videoCycle, inputLen, in, o)
                    [] e = ScriptEnd -> Outcome(d2, "return", nilError, o)
                    [] e = GUIEventError ->
                         ParseAndContinue(d2, videoCycle, inputLen, in, o)
                    [] OTHER -> Outcome(d2, "return", e, o)

\* the condition of "check for breakpoints and traps", as Go reads it: &&
\* binds more tightly than ||
checkTraps(videoCycle, last) ==
    \/ ~videoCycle
    \/ (last.Final /\ last.Effect = Flow)
    \/ last.Effect = Subroutine
    \/ last.Effect = Interrupt
    \/ (~last.Final /\ last.Effect # Flow /\ last.Effect # Subroutine
          /\ last.Effect # Interrupt)

haltEmulation_StepErrorIgnored(d, messages) ==
    messages \/ d.haltImmediately \/ ~d.runUntilHalt

\* haltEmulation: messages says that a step trap, a breakpoint, a trap or a
\* watch has left a message in this pass
haltEmulation(d, messages) ==
    messages \/ d.lastStepError \/ d.haltImmediately \/ ~d.runUntilHalt

\* one pass of the for loop of inputLoop, after checkEvents has left
\* dbg.running set, up to the call of vcs.Step; last is CPU.LastResult
inputLoop(d, videoCycle, in, last) ==
    IF videoCycle /\ d.continueEmulation /\ d.quantum = QuantumCPU
    THEN Outcome(d, "return", nilError, NothingSeen)
    ELSE LET checked == checkTraps(videoCycle, last)
             halt == haltEmulation(d, checked /\ in.messages)
             d1 == [d EXCEPT !.lastStepError = FALSE]
             o == [NothingSeen EXCEPT !.reached = TRUE, !.checked = checked,
                                      !.halt = halt]
         IN  IF halt \/ in.checkTerm
             THEN Halt(d1, videoCycle, halt, in, o)
             ELSE Continue(d1, videoCycle, o)

\* inputLoop after vcs.Step has returned e and left r in CPU.LastResult
afterStep_NoFinalTest(d, e, r) ==
    IF e # nilError
    THEN IF ~IsAny(e)
         THEN [dbg |-> d, out |-> "return", err |-> e, checked |-> FALSE]
         ELSE [dbg |-> [d EXCEPT !.lastStepError = TRUE], out |-> "loop",
               err |-> nilError, checked |-> FALSE]
    ELSE IF IsValid(r) # nilError
    THEN [dbg |-> d, out |-> "return", err |-> DebuggerError(IsValid(r)),
          checked |-> TRUE]
    ELSE [dbg |-> d, out |-> "loop", err |-> nilError, checked |-> TRUE]

afterStep(d, e, r) ==
    IF e # nilError
    THEN IF ~IsAny(e)
         THEN [dbg |-> d, out |-> "return", err |-> e, checked |-> FALSE]
         ELSE [dbg |-> [d EXCEPT !.lastStepError = TRUE], out |-> "loop",
               err |-> nilError, checked |-> FALSE]
    ELSE IF r.Final
    THEN IF IsValid(r) # nilError
         THEN [dbg |-> d, out |-> "return", err |-> DebuggerError(IsValid(r)),
               checked |-> TRUE]
         ELSE [dbg |-> d, out |-> "loop", err |-> nilError, checked |-> TRUE]
    ELSE [dbg |-> d, out |-> "loop", err |-> nilError, checked |-> FALSE]

\* ---- SpecDebugger: the input loop, the instructions it steps and the
\* ---- terminal it reads
MaxSteps == 1
MaxVideoCycles == 2

\* what TermRead gives for the prompt: a command and its newline, or an error
TermReads ==
    { [written |-> TRUE, input |-> c, inputLen |-> c.len + 1, err |-> nilError] :
          c \in Commands } \cup
    { [written |-> FALSE, input |-> Input("", 0), inputLen |-> n, err |-> e] :
          n \in {0, 11}, e \in {UserInterrupt, UserQuit} } \cup
    { [written |-> FALSE, input |-> Input("", 0), inputLen |-> 0, err |-> e] :
          e \in {nilError, EOF, ScriptEnd, GUIEventError, Err("InputError"),
                 Err("read error")} }

\* what TermRead gives for the "really quit (y/n)" prompt
NoConfirm == [byte |-> "", err |-> nilError]
Confirms ==
    { [byte |-> "y", err |-> nilError], [byte |-> "Y", err |-> nilError],
      [byte |-> "n", err |-> nilError], [byte |-> "", err |-> UserInterrupt],
      [byte |-> "", err |-> Err("read error")] }

\* what scr.SetFeature returns
FeatureErrors == {nilError, Err("GUI error")}

\* what a pass of the loop meets on its way: whether checkEvents asks for the
\* terminal, whether a breakpoint, trap, watch or step trap has a message,
\* what the two SetFeature calls return (one error at most), what TermRead
\* gives and, for an interrupt, what the confirmation gives
PassInputs ==
    UNION { { in \in [ checkTerm : BOOLEAN,
                       messages : BOOLEAN,
                       pauseErr : FeatureErrors,
                       unpauseErr : FeatureErrors,
                       read : {rd},
                       confirm : IF rd.err \in {UserInterrupt, EOF}
                                 THEN Confirms
                                 ELSE {NoConfirm} ] :
                  in.pauseErr = nilError \/ in.unpauseErr = nilError } :
            rd \in TermReads }

\* what vcs.Step returns when every video cycle has gone well
StepErrors == {nilError, Err("UnimplementedInstruction"), Err("step error")}

\* what reflect.Check returns
CheckErrors == {nilError, Err("reflection error")}

\* what vcs.Step leaves in CPU.LastResult
StepResults ==
    LET defn == [Bytes |-> 1, Cycles |-> 2, PageSensitive |-> FALSE,
                 IsBranch |-> FALSE]
    IN  { [Defn |-> defn, Final |-> final, PageFault |-> FALSE, ByteCount |-> 1,
           ActualCycles |-> c, CPUBug |-> ""] :
              final \in BOOLEAN, c \in {2, 3} }

NoStepResult == CHOOSE r \in StepResults : ~r.Final /\ r.ActualCycles = 2

NewDebugger(detail) ==
    /\ \E interactive \in BOOLEAN, quantum \in {QuantumCPU, QuantumVideo} :
        dbg = [ running           |-> TRUE,
                continueEmulation |-> FALSE,
                runUntilHalt      |-> FALSE,
                lastStepError     |-> FALSE,
                haltImmediately   |-> FALSE,
                quantum           |-> quantum,
                scriptActive      |-> FALSE, \* scriptScribe.IsActive()
                interactive       |-> interactive, \* inputter.IsInteractive()
                input             |-> Input("", 0),
                pc                |-> "inputLoop",
                cycles            |-> 0,    \* video cycles left in vcs.Step
                callback          |-> "",   \* the callback given to vcs.Step
                stepErr           |-> nilError, \* what the callback returned
                ret               |-> nilError ] \* what inputLoop returned
    /\ dbgObs = [ steps         |-> 0,     \* calls of vcs.Step so far
                  stepErr       |-> nilError, \* what the latest vcs.Step returned
                  result        |-> NoStepResult, \* CPU.LastResult after it
                  checked       |-> FALSE, \* IsValid was called after it
                  parsed        |-> NotParsed, \* what the latest pass parsed
                  interrupted   |-> FALSE, \* it called handleInterrupt
                  recording     |-> FALSE, \* scriptScribe.IsActive() before it
                  wasRunning    |-> TRUE,  \* dbg.running before it
                  confirm       |-> NoConfirm, \* the confirmation it read
                  pass          |-> NothingSeen, \* what else was seen of it
                  out           |-> "loop", \* where control went from it
                  video         |-> FALSE, \* it had videoCycle set
                  last          |-> NoLastResult, \* CPU.LastResult in it
                  checkTerm     |-> FALSE, \* checkEvents asked for the terminal
                  stepError     |-> FALSE, \* dbg.lastStepError before it
                  untilHalt     |-> FALSE, \* dbg.runUntilHalt before it
                  paused        |-> FALSE, \* the latest ReqSetPause sent
                  detail        |-> detail ] \* the eight fields above are kept
    /\ op = "NewDebugger"
    /\ NoTelevision
    /\ sp = Absent /\ spObs = Absent /\ result = Absent
    /\ mem = Absent /\ memObs = Absent
    /\ NoCommandline /\ NoDatabase
    /\ NoSymbols /\ NoRegister

InitDebugger == NewDebugger(FALSE)

DebuggerStep(name, d, o) ==
    /\ dbg' = d
    /\ dbgObs' = o
    /\ op' = name
    /\ UNCHANGED <<tvVars, spriteVars, cpuVars, memVars, cmdlineVars,
                   databaseVars, symbolsVars, registerVars>>

\* what the observer notes of a pass
PassSeen(r, in, last) ==
    LET o == [dbgObs EXCEPT !.parsed = r.obs.parsed,
                            !.interrupted = r.obs.interrupted,
                            !.recording = dbg.scriptActive,
                            !.wasRunning = dbg.running,
                            !.confirm = in.confirm]
    IN  IF ~dbgObs.detail
        THEN o
        ELSE [o EXCEPT !.pass = r.obs,
                       !.out = r.out,
                       !.video = dbg.pc = "videoLoop",
                       !.last = last,
                       !.checkTerm = r.obs.reached /\ in.checkTerm,
                       !.stepError = dbg.lastStepError,
                       !.untilHalt = dbg.runUntilHalt,
                       !.paused = IF r.obs.unpause THEN FALSE
                                  ELSE IF r.obs.pause THEN TRUE
                                  ELSE dbgObs.paused]

\* the inputs of the passes: all of PassInputs, or with the detail of the
\* passes kept, those with the reads that differ in what the loop does next
DetailReads ==
    {rd \in TermReads :
        /\ rd.input.text \in {"STEP", "RUN", "HELP", "QUANTUM CPU", ""}
        /\ rd.inputLen # 11
        /\ rd.err \in {nilError, UserQuit, ScriptEnd, Err("read error")}}
DetailInputs == {in \in PassInputs : in.read \in DetailReads}
InputsOf(detail) == IF detail THEN DetailInputs ELSE PassInputs

\* the video cycles of an instruction, at most
MaxPassCycles == 1
CyclesOf(detail) == IF detail THEN MaxPassCycles ELSE MaxVideoCycles

\* checkEvents has cleared dbg.running, or the for loop finds it cleared:
\* inputLoop returns nil
QuitOutcome == Outcome([dbg EXCEPT !.running = FALSE], "return", nilError,
                       NothingSeen)
NoPassInput == CHOOSE in \in PassInputs : in.confirm = NoConfirm

\* a pass of the outer inputLoop (videoCycle is false)
EndOuterPass(r, in) ==
    CASE r.out = "loop" ->
            DebuggerStep("inputLoop", r.dbg, PassSeen(r, in, NoLastResult))
      [] r.out = "return" ->
            DebuggerStep("inputLoop",
                         [r.dbg EXCEPT !.pc = "returned", !.ret = r.err],
                         PassSeen(r, in, NoLastResult))
      [] r.out = "Step" ->
            /\ dbgObs.steps < MaxSteps
            /\ \E n \in 1..CyclesOf(dbgObs.detail) :
                DebuggerStep("inputLoop",
                    [r.dbg EXCEPT !.pc = "Step",
                                  !.cycles = n,
                                  !.stepErr = nilError,
                                  !.callback = IF r.dbg.quantum = QuantumCPU
                                               THEN "vcsStep"
                                               ELSE "vcsStepVideo"],
                    [PassSeen(r, in, NoLastResult) EXCEPT
                        !.steps = dbgObs.steps + 1])

LoopPass ==
    /\ dbg.pc = "inputLoop"
    /\ IF ~dbg.running
       THEN EndOuterPass(QuitOutcome, NoPassInput)
       ELSE \E quit \in BOOLEAN :
              IF quit
              THEN EndOuterPass(QuitOutcome, NoPassInput)
              ELSE \E in \in InputsOf(dbgObs.detail) :
                      EndOuterPass(inputLoop(dbg, FALSE, in, NoLastResult), in)

\* vcs.Step calls its callback for a video cycle: vcsStep checks the
\* reflection, vcsStepVideo starts an inputLoop with videoCycle true
StepCycle ==
    /\ dbg.pc = "Step"
    /\ dbg.cycles > 0
    /\ dbg.stepErr = nilError
    /\ IF dbg.callback = "vcsStep"
       THEN \E e \in CheckErrors :
                DebuggerStep("vcsStep",
                             [dbg EXCEPT !.cycles = dbg.cycles - 1,
                                         !.stepErr = e],
                             dbgObs)
       ELSE DebuggerStep("vcsStepVideo", [dbg EXCEPT !.pc = "videoLoop"],
                         dbgObs)

\* the instructions in progress as the video cycles find them: of every
\* kind, or one for which the breakpoints and traps are checked
LastResults ==
    {LastResult(effect, final) :
         effect \in {Flow, Subroutine, Interrupt, ReadEffect}, final \in BOOLEAN}
LastResultsOf(detail) ==
    IF detail THEN LastResults
    ELSE {LastResult(ReadEffect, FALSE)}

\* a pass of an inputLoop started by vcsStepVideo (videoCycle is true)
EndVideoPass(r, in, last) ==
    IF r.out = "loop"
    THEN DebuggerStep("inputLoop", r.dbg, PassSeen(r, in, last))
    ELSE DebuggerStep("inputLoop",
                      [r.dbg EXCEPT !.pc = "Step",
                                    !.cycles = dbg.cycles - 1,
                                    !.stepErr = r.err],
                      PassSeen(r, in, last))

VideoLoopPass ==
    /\ dbg.pc = "videoLoop"
    /\ IF ~dbg.running
       THEN EndVideoPass(QuitOutcome, NoPassInput, NoLastResult)
       ELSE \E quit \in BOOLEAN :
              IF quit
              THEN EndVideoPass(QuitOutcome, NoPassInput, NoLastResult)
              ELSE \E in \in InputsOf(dbgObs.detail),
                      last \in LastResultsOf(dbgObs.detail) :
                      EndVideoPass(inputLoop(dbg, TRUE, in, last), in, last)

\* vcs.Step returns, after its last video cycle or with the error of a
\* callback, and inputLoop goes on to the end of its pass
StepReturn ==
    /\ dbg.pc = "Step"
    /\ dbg.cycles = 0 \/ dbg.stepErr # nilError
    /\ \E e \in IF dbg.stepErr # nilError THEN {dbg.stepErr} ELSE StepErrors,
          r \in StepResults :
        LET a == afterStep(dbg, e, r)
            o == [dbgObs EXCEPT !.stepErr = e,
                                !.result = r,
                                !.checked = a.checked]
        IN  IF a.out = "loop"
            THEN DebuggerStep("Step", [a.dbg EXCEPT !.pc = "inputLoop"], o)
            ELSE DebuggerStep("Step",
                              [a.dbg EXCEPT !.pc = "returned", !.ret = a.err],
                              o)

NextDebugger == LoopPass \/ StepCycle \/ VideoLoopPass \/ StepReturn
SpecDebugger == InitDebugger /\ [][NextDebugger]_vars

\* the same loop with the detail of its passes kept
InitPasses == NewDebugger(TRUE)
SpecPasses == InitPasses /\ [][NextDebugger]_vars

(***************************************************************************)
(* Properties of the input loop of the debugger                            *)
(***************************************************************************)
\* C22: cancellation is cooperative: once dbg.running is cleared (UserQuit, a
\* confirmed interrupt, an interrupt on input that is not interactive),
\* inputLoop calls vcs.Step no more before it returns, and an instruction
\* whose Step has begun runs to its end: an inputLoop started for one of its
\* video cycles returns nil at once.
C22_NoStepOnceRunningCleared ==
    [][ /\ dbgObs'.steps # dbgObs.steps => dbg'.running
        /\ (dbg.pc = "videoLoop" /\ ~dbg.running) =>
               /\ dbg'.pc = "Step"
               /\ dbg'.stepErr = nilError
               /\ dbg'.cycles = dbg.cycles - 1 ]_vars

\* C23: after a vcs.Step that returns no error and leaves CPU.LastResult Final
\* the debugger runs IsValid on it and, if that fails, inputLoop returns the
\* error (in a DebuggerError) with no further instruction stepped; a result
\* that is not Final is never checked.
C23_FinalResultValidated ==
    /\ op = "Step" =>
        /\ (dbgObs.stepErr = nilError /\ dbgObs.result.Final) =>
              /\ dbgObs.checked
              /\ IsValid(dbgObs.result) # nilError =>
                    /\ dbg.pc = "returned"
                    /\ dbg.ret = DebuggerError(IsValid(dbgObs.result))
        /\ ~dbgObs.result.Final => ~dbgObs.checked
    /\ dbg.pc = "returned" => ~ENABLED NextDebugger

C23_Witness ==
    /\ op = "Step"
    /\ dbgObs.stepErr = nilError
    /\ dbgObs.result.Final
    /\ dbgObs.checked
    /\ dbg.pc = "returned"
    /\ dbg.ret = [errno |-> "DebuggerError", msg |-> "number of cycles wrong"]

\* C24: an interrupt while a script is being recorded ends the recording: the
\* input loop parses and executes SCRIPT END and the debugger keeps running;
\* with no recording, an interrupt on input that is not interactive clears
\* dbg.running at once, and on interactive input dbg.running is cleared
\* exactly when the confirmation is y or Y or is itself interrupted.
C24_InterruptEndsRecordingOrQuits ==
    (op = "inputLoop" /\ dbgObs.interrupted) =>
        IF dbgObs.recording
        THEN /\ dbgObs.parsed = "SCRIPT END"
             /\ ~dbg.scriptActive
             /\ dbg.running
        ELSE IF ~dbg.interactive
        THEN ~dbg.running
        ELSE dbg.running = ~(\/ dbgObs.confirm.byte \in {"y", "Y"}
                             \/ dbgObs.confirm.err = UserInterrupt)

(***************************************************************************)
(* Part 6: the validation of a command line against command templates      *)
(* (Commands.ValidateTokens and node.validate).  A token and a tag are     *)
(* sequences of characters; a template is a table of nodes.                *)
(***************************************************************************)
LowerCase == <<"a", "b", "c", "d", "e", "f", "g", "h", "i", "j", "k", "l", "m",
               "n", "o", "p", "q", "r", "s", "t", "u", "v", "w", "x", "y", "z">>
UpperCase == <<"A", "B", "C", "D", "E", "F", "G", "H", "I", "J", "K", "L", "M",
               "N", "O", "P", "Q", "R", "S", "T", "U", "V", "W", "X", "Y", "Z">>

\* strings.ToUpper
ToUpperChar(c) ==
    IF \E i \in 1..Len(LowerCase) : LowerCase[i] = c
    THEN UpperCase[CHOOSE i \in 1..Len(LowerCase) : LowerCase[i] = c]
    ELSE c
ToUpper(s) == [i \in 1..Len(s) |-> ToUpperChar(s[i])]

\* strconv.ParseInt(tok, 0, 32): an optional sign, then 0x and hexadecimal
\* digits, or 0 and octal digits, or decimal digits; the value fits 32 bits
Digits == <<"0", "1", "2", "3", "4", "5", "6", "7", "8", "9",
            "a", "b", "c", "d", "e", "f">>
IsDigit(c, base) ==
    \E i \in 1..base : Digits[i] = c \/ ToUpperChar(Digits[i]) = c
DigitValue(c) ==
    (CHOOSE i \in 1..Len(Digits) : Digits[i] = c \/ ToUpperChar(Digits[i]) = c) - 1

\* the greatest 32-bit integer
MaxInt32 == 2147483647

\* the number written by the digits, -1 if it is greater than limit
RECURSIVE NumberValue(_, _, _)
NumberValue(s, base, limit) ==
    IF s = <<>>
    THEN 0
    ELSE LET v == NumberValue(SubSeq(s, 1, Len(s) - 1), base, limit)
             d == DigitValue(s[Len(s)])
         IN  IF v = -1 \/ v > (limit - d) \div base
             THEN -1
             ELSE v * base + d

ParseInt(tok) ==
    LET neg == tok # <<>> /\ tok[1] = "-"
        s == IF tok # <<>> /\ tok[1] \in {"+", "-"} THEN Tail(tok) ELSE tok
        hex == Len(s) > 2 /\ s[1] = "0" /\ s[2] \in {"x", "X"}
        oct == ~hex /\ Len(s) > 1 /\ s[1] = "0"
        base == IF hex THEN 16 ELSE IF oct THEN 8 ELSE 10
        digits == IF hex THEN SubSeq(s, 3, Len(s))
                  ELSE IF oct THEN Tail(s)
                  ELSE s
        syntax == /\ digits # <<>>
                  /\ \A i \in 1..Len(digits) : IsDigit(digits[i], base)
        v == NumberValue(digits, base, MaxInt32)
        \* -2147483648 is the one number in range whose digits are not
        least == /\ neg
                 /\ v = -1
                 /\ DigitValue(digits[Len(digits)]) > 0
                 /\ LET prefix == NumberValue(SubSeq(digits, 1, Len(digits) - 1),
                                              base, MaxInt32)
                    IN  /\ prefix # -1
                        /\ prefix = (MaxInt32 - (DigitValue(digits[Len(digits)]) - 1))
                                        \div base
                        /\ prefix * base + DigitValue(digits[Len(digits)]) - 1
                               = MaxInt32
    IN  [ok |-> syntax /\ (v # -1 \/ least)]

\* the Tokens queue
NewTokens(toks) == [tokens |-> toks, curr |-> 0]
Get(tk) ==
    IF tk.curr >= Len(tk.tokens)
    THEN [tok |-> <<>>, ok |-> FALSE, tk |-> tk]
    ELSE [tok |-> tk.tokens[tk.curr + 1], ok |-> TRUE,
          tk |-> [tk EXCEPT !.curr = tk.curr + 1]]
Unget(tk) == IF tk.curr > 0 THEN [tk EXCEPT !.curr = tk.curr - 1] ELSE tk
Peek(tk) ==
    IF tk.curr >= Len(tk.tokens)
    THEN [tok |-> <<>>, ok |-> FALSE]
    ELSE [tok |-> tk.tokens[tk.curr + 1], ok |-> TRUE]
Remaining(tk) == Len(tk.tokens) - tk.curr
Remainder(tk) == SubSeq(tk.tokens, tk.curr + 1, Len(tk.tokens))
Update(tk, tok) ==
    IF tk.curr > 0 THEN [tk EXCEPT !.tokens[tk.curr] = tok] ELSE tk

\* the types of a node
nodeRoot == "nodeRoot"
nodeRequired == "nodeRequired"
nodeOptional == "nodeOptional"

\* a node: next and branch are sequences of places in the table of nodes,
\* repeat is a place in the table (0 is nil)
Node(tag, typ, next, branch, repeat) ==
    [tag |-> tag, typ |-> typ, next |-> next, branch |-> branch,
     repeat |-> repeat]

\* the placeholders
PlaceholderN == <<"%", "N">>
PlaceholderS == <<"%", "S">>
PlaceholderF == <<"%", "F">>

\* the errors of the validation; arg is the token or the tag named by it
NoValidationError == [errno |-> "nil", msg |-> "", arg |-> <<>>]
PlainError(msg, arg) == [errno |-> "error", msg |-> msg, arg |-> arg]
ValidationError(msg, arg) ==
    [errno |-> "ValidationError", msg |-> msg, arg |-> arg]
PanicError == [errno |-> "PanicError", msg |-> "illegal empty node", arg |-> <<>>]

\* case "%N": $ in front of the token becomes 0x
normaliseHex_DollarKept(tok) == tok

normaliseHex(tok) ==
    IF tok[1] = "$" THEN <<"0", "x">> \o Tail(tok) ELSE tok

\* case "%S", case "%F": match = n.branch == nil
matchPlaceholder_Always(n) == TRUE

matchPlaceholder(n) == n.branch = <<>>

\* the switch on n.tag: whether the token matches, whether it matches
\* tentatively, and the token as it is from then on (given to tokens.Update
\* when update is set)
matchTag(n, tok) ==
    CASE n.tag = PlaceholderN ->
            [match |-> ParseInt(normaliseHex(tok)).ok, tentative |-> FALSE,
             tok |-> normaliseHex(tok), update |-> TRUE]
      [] n.tag \in {PlaceholderS, PlaceholderF} ->
            [match |-> matchPlaceholder(n), tentative |-> TRUE,
             tok |-> tok, update |-> FALSE]
      [] OTHER ->
            [match |-> ToUpper(tok) = n.tag, tentative |-> FALSE,
             tok |-> ToUpper(tok), update |-> ToUpper(tok) = n.tag]

\* the repeat node is validated if the queue has moved
repeatWanted_Never(n, remainder, tk) == FALSE

repeatWanted(n, remainder, tk) ==
    n.repeat # 0 /\ remainder # Remainder(tk)

\* what validate returns: the error, the queue as it leaves it, and the
\* places of the nodes that matched a token, in order
Validated(e, tk, matched) == [err |-> e, tk |-> tk, matched |-> matched]

\* F(v), with v computed once however often F refers to it
With(v, F(_)) == CHOOSE y \in {F(x) : x \in {v}} : TRUE

RECURSIVE validate(_, _, _, _)
RECURSIVE validateBranches(_, _, _, _)
RECURSIVE validateNext(_, _, _, _)

\* for bi := range n.branch { tokens.Unget(); if n.branch[bi].validate(tokens,
\* true) == nil ... }: the first branch that validates, from place bi on
validateBranches(nodes, branch, bi, tk) ==
    IF bi > Len(branch)
    THEN [found |-> FALSE, tk |-> tk, matched |-> <<>>]
    ELSE With(validate(nodes, branch[bi], Unget(tk), TRUE), LAMBDA r :
             IF r.err = NoValidationError
             THEN [found |-> TRUE, tk |-> r.tk, matched |-> r.matched]
             ELSE validateBranches(nodes, branch, bi + 1, r.tk))

\* for ni := range n.next { err := n.next[ni].validate(tokens, false) ... }
validateNext(nodes, next, ni, tk) ==
    IF ni > Len(next)
    THEN Validated(NoValidationError, tk, <<>>)
    ELSE With(validate(nodes, next[ni], tk, FALSE), LAMBDA r :
             IF r.err # NoValidationError
             THEN r
             ELSE With(validateNext(nodes, next, ni + 1, r.tk), LAMBDA rest :
                      Validated(rest.err, rest.tk, r.matched \o rest.matched)))

\* node.validate for a node without a tag: the start of a group
validateGroup(nodes, n, tk) ==
    IF Len(n.next) # 1
    THEN Validated(PanicError, tk, <<>>)
    ELSE With(validate(nodes, n.next[1], tk, TRUE), LAMBDA r :
             IF r.err = NoValidationError
             THEN r
             ELSE With(validateBranches(nodes, n.branch, 1, r.tk), LAMBDA b :
                      IF b.found
                      THEN Validated(NoValidationError, b.tk, b.matched)
                      ELSE Validated(r.err, b.tk, <<>>)))

\* node.validate from "for ni := range n.next" on: the next nodes and the
\* repeat node, for a node that matched (here is its place) or was passed over
validateRest(nodes, n, remainder, here, tk) ==
    With(validateNext(nodes, n.next, 1, tk), LAMBDA nx :
        IF nx.err # NoValidationError
        THEN Validated(nx.err, nx.tk, here \o nx.matched)
        ELSE IF repeatWanted(n, remainder, nx.tk)
        THEN With(validate(nodes, n.repeat, nx.tk, FALSE), LAMBDA rp :
                 Validated(rp.err, rp.tk, here \o nx.matched \o rp.matched))
        ELSE Validated(NoValidationError, nx.tk, here \o nx.matched))

\* node.validate, for the node at place id of the table
validate(nodes, id, tk, speculative) ==
    LET n == nodes[id]
    IN  IF n.tag = <<>>
        THEN validateGroup(nodes, n, tk)
        ELSE
        LET remainder == Remainder(tk)
            g == Get(tk)
        IN  IF ~g.ok
            THEN IF n.typ \in {nodeRequired, nodeRoot}
                 THEN Validated(PlainError("required", n.tag), g.tk, <<>>)
                 ELSE Validated(NoValidationError, g.tk, <<>>)
            ELSE
            LET m == matchTag(n, g.tok)
                tk1 == IF m.update THEN Update(g.tk, m.tok) ELSE g.tk
                tryBranches == ~m.match /\ n.branch # <<>>
                match == IF tryBranches THEN m.tentative ELSE m.match
                e == PlainError("unrecognised argument", m.tok)
            IN  With(IF tryBranches
                     THEN validateBranches(nodes, n.branch, 1, tk1)
                     ELSE [found |-> FALSE, tk |-> tk1, matched |-> <<>>],
                     LAMBDA b :
                IF b.found
                THEN Validated(NoValidationError, b.tk, b.matched)
                ELSE IF ~match /\ (speculative \/ n.typ # nodeOptional)
                THEN Validated(e, b.tk, <<>>)
                ELSE IF match
                THEN validateRest(nodes, n, remainder, <<id>>, b.tk)
                ELSE validateRest(nodes, n, remainder, <<>>, Unget(b.tk)))

\* Commands.ValidateTokens: cmds is the list of the places of the command
\* nodes in the table; no help command is set
RECURSIVE ValidateCommand(_, _, _, _)
ValidateCommand(nodes, cmds, n, tk) ==
    LET cmd == ToUpper(Peek(tk).tok)
    IN  IF n > Len(cmds)
        THEN Validated(PlainError("unrecognised command", cmd), tk, <<>>)
        ELSE IF cmd # nodes[cmds[n]].tag
        THEN ValidateCommand(nodes, cmds, n + 1, tk)
        ELSE With(validate(nodes, cmds[n], tk, FALSE), LAMBDA r :
                 IF r.err # NoValidationError
                 THEN IF r.err.errno = "error"
                      THEN Validated(ValidationError(r.err.msg, r.err.arg),
                                     r.tk, r.matched)
                      ELSE r
                 ELSE IF Remaining(r.tk) > 0
                 THEN Validated(
                          ValidationError("unrecognised argument for command",
                                          Get(r.tk).tok),
                          Get(r.tk).tk, r.matched)
                 ELSE r)

ValidateTokens(nodes, cmds, tk) ==
    IF ~Peek(tk).ok
    THEN Validated(NoValidationError, tk, <<>>)
    ELSE ValidateCommand(nodes, cmds, 1, tk)

\* ---- SpecValidate: command lines are validated against the templates of
\* ---- the tests
MaxArgs == 4

\* the words of the command lines
wTest == <<"T", "E", "S", "T">>
wTestLower == <<"t", "e", "s", "t">>
wArg == <<"a", "r", "g">>
wArgMixed == <<"A", "r", "g">>
wFoo == <<"f", "o", "o">>
wBar == <<"b", "a", "r">>
wBaz == <<"b", "a", "z">>
wQux == <<"q", "u", "x">>
wWibble == <<"w", "i", "b", "b", "l", "e">>
wRom == <<"r", "o", "m">>
wTen == <<"1", "0">>
wHex == <<"0", "x", "1", "f">>
wDollarHex == <<"$", "1", "f">>
wTooBig == <<"2", "1", "4", "7", "4", "8", "3", "6", "4", "8">>
wScript == <<"S", "C", "R", "I", "P", "T">>
wRecord == <<"R", "E", "C", "O", "R", "D">>
wRegression == <<"R", "E", "G", "R", "E", "S", "S", "I", "O", "N">>
wEnd == <<"E", "N", "D">>
wEndLower == <<"e", "n", "d">>
wSymbol == <<"S", "Y", "M", "B", "O", "L">>
wEnabl == <<"e", "n", "a", "b", "l">>
wAll == <<"A", "L", "L">>
wMirrors == <<"M", "I", "R", "R", "O", "R", "S">>
wList == <<"L", "I", "S", "T">>
wListLower == <<"l", "i", "s", "t">>
wPrint == <<"P", "R", "I", "N", "T">>
wSort == <<"S", "O", "R", "T">>
wRising == <<"r", "i", "s", "i", "n", "g">>
wFalling == <<"f", "a", "l", "l", "i", "n", "g">>

\* what ParseCommandTemplate makes of the templates of the tests: the table
\* of nodes, the places of the command nodes, and with them the command
\* names and the arguments tried
Templates ==
    [ required |->     \* "TEST [arg]"
        [ nodes |-> << Node(wTest, nodeRoot, <<2>>, <<>>, 0),
                       Node(ToUpper(wArg), nodeRequired, <<>>, <<>>, 0) >>,
          cmds |-> <<1>>,
          names |-> {wTest, wTestLower},
          words |-> {wArg, wArgMixed, wFoo} ],
      optional |->     \* "TEST (arg)"
        [ nodes |-> << Node(wTest, nodeRoot, <<2>>, <<>>, 0),
                       Node(ToUpper(wArg), nodeOptional, <<>>, <<>>, 0) >>,
          cmds |-> <<1>>,
          names |-> {wTest, wTestLower},
          words |-> {wArg, wArgMixed, wFoo} ],
      branchesAndNumeric |->     \* "TEST (arg [%N]|foo)"
        [ nodes |-> << Node(wTest, nodeRoot, <<2>>, <<>>, 0),
                       Node(ToUpper(wArg), nodeOptional, <<3>>, <<4>>, 0),
                       Node(PlaceholderN, nodeRequired, <<>>, <<>>, 0),
                       Node(ToUpper(wFoo), nodeOptional, <<>>, <<>>, 0) >>,
          cmds |-> <<1>>,
          names |-> {wTest},
          words |-> {wArg, wFoo, wBar, wTen, wHex, wDollarHex, wTooBig} ],
      numericAfterGroup |->     \* "TEST (arg|foo) %N"
        [ nodes |-> << Node(wTest, nodeRoot, <<2>>, <<>>, 0),
                       Node(ToUpper(wArg), nodeOptional, <<4>>, <<3>>, 0),
                       Node(ToUpper(wFoo), nodeOptional, <<4>>, <<>>, 0),
                       Node(PlaceholderN, nodeRoot, <<>>, <<>>, 0) >>,
          cmds |-> <<1>>,
          names |-> {wTest},
          words |-> {wArg, wFoo, wBar, wTen, wDollarHex} ],
      repeatGroup |->     \* "TEST {foo|bar|baz}"
        [ nodes |-> << Node(wTest, nodeRoot, <<2>>, <<>>, 0),
                       Node(ToUpper(wFoo), nodeOptional, <<>>, <<3, 4>>, 2),
                       Node(ToUpper(wBar), nodeOptional, <<>>, <<>>, 2),
                       Node(ToUpper(wBaz), nodeOptional, <<>>, <<>>, 2) >>,
          cmds |-> <<1>>,
          names |-> {wTest},
          words |-> {wFoo, wBar, wBaz, wWibble} ],
      repeatAfterKeyword |->     \* "TEST [foo|bar {baz|qux}]"
        [ nodes |-> << Node(wTest, nodeRoot, <<2>>, <<>>, 0),
                       Node(ToUpper(wFoo), nodeRequired, <<>>, <<3>>, 0),
                       Node(ToUpper(wBar), nodeRequired, <<4>>, <<>>, 0),
                       Node(ToUpper(wBaz), nodeOptional, <<>>, <<5>>, 4),
                       Node(ToUpper(wQux), nodeOptional, <<>>, <<>>, 4) >>,
          cmds |-> <<1>>,
          names |-> {wTest},
          words |-> {wFoo, wBar, wBaz, wQux, wWibble} ],
      filenameFirstArg |->     \* "TEST [%F|foo [wibble]|bar]"
        [ nodes |-> << Node(wTest, nodeRoot, <<2>>, <<>>, 0),
                       Node(PlaceholderF, nodeRequired, <<>>, <<3, 5>>, 0),
                       Node(ToUpper(wFoo), nodeRequired, <<4>>, <<>>, 0),
                       Node(ToUpper(wWibble), nodeRequired, <<>>, <<>>, 0),
                       Node(ToUpper(wBar), nodeRequired, <<>>, <<>>, 0) >>,
          cmds |-> <<1>>,
          names |-> {wTest},
          words |-> {wFoo, wWibble, wBar, wRom} ],
      singularOption |->     \* "SCRIPT [RECORD (REGRESSION) [%S]|END|%F]"
        [ nodes |-> << Node(wScript, nodeRoot, <<2>>, <<>>, 0),
                       Node(wRecord, nodeRequired, <<3>>, <<5, 6>>, 0),
                       Node(wRegression, nodeOptional, <<4>>, <<>>, 0),
                       Node(PlaceholderS, nodeRequired, <<>>, <<>>, 0),
                       Node(wEnd, nodeRequired, <<>>, <<>>, 0),
                       Node(PlaceholderF, nodeRequired, <<>>, <<>>, 0) >>,
          cmds |-> <<1>>,
          names |-> {wScript},
          words |-> {wRecord, wRegression, wEnd, wEndLower, wFoo} ],
      symbol |->     \* "SYMBOL [%S (ALL|MIRRORS)|LIST]"
        [ nodes |-> << Node(wSymbol, nodeRoot, <<2>>, <<>>, 0),
                       Node(PlaceholderS, nodeRequired, <<3>>, <<5>>, 0),
                       Node(wAll, nodeOptional, <<>>, <<4>>, 0),
                       Node(wMirrors, nodeOptional, <<>>, <<>>, 0),
                       Node(wList, nodeRequired, <<>>, <<>>, 0) >>,
          cmds |-> <<1>>,
          names |-> {wSymbol},
          words |-> {wEnabl, wAll, wMirrors, wList, wListLower} ],
      commands |->     \* "LIST", "PRINT [%s]", "SORT (RISING|FALLING)"
        [ nodes |-> << Node(wList, nodeRoot, <<>>, <<>>, 0),
                       Node(wPrint, nodeRoot, <<3>>, <<>>, 0),
                       Node(PlaceholderS, nodeRequired, <<>>, <<>>, 0),
                       Node(wSort, nodeRoot, <<5>>, <<>>, 0),
                       Node(ToUpper(wRising), nodeOptional, <<>>, <<6>>, 0),
                       Node(ToUpper(wFalling), nodeOptional, <<>>, <<>>, 0) >>,
          cmds |-> <<1, 2, 4>>,
          names |-> {wList, wListLower, wPrint, wSort, wFoo},
          words |-> {wRising, wFalling, wFoo} ] ]

\* the sequences of at most n of the words
RECURSIVE Lines(_, _)
Lines(words, n) ==
    IF n = 0
    THEN {<<>>}
    ELSE LET shorter == Lines(words, n - 1)
         IN  shorter \cup {<<w>> \o l : w \in words, l \in shorter}

NotValidated == [errno |-> "not validated", msg |-> "", arg |-> <<>>]

InitValidate ==
    /\ \E name \in DOMAIN Templates :
        \E line \in {<<>>} \cup
                    {<<c>> \o args : c \in Templates[name].names,
                                     args \in Lines(Templates[name].words, MaxArgs)} :
            cmdline = [ template |-> name,
                        input    |-> line,
                        tokens   |-> NewTokens(line),
                        err      |-> NotValidated,
                        matched  |-> <<>> ]
    /\ op = "TokeniseInput"
    /\ NoTelevision
    /\ sp = Absent /\ spObs = Absent /\ result = Absent
    /\ mem = Absent /\ memObs = Absent
    /\ NoDebugger /\ NoDatabase
    /\ NoSymbols /\ NoRegister

ValidateStep ==
    /\ cmdline.err = NotValidated
    /\ LET r == ValidateTokens(Templates[cmdline.template].nodes,
                               Templates[cmdline.template].cmds,
                               cmdline.tokens)
       IN  cmdline' = [cmdline EXCEPT !.err = r.err,
                                      !.tokens = r.tk,
                                      !.matched = r.matched]
    /\ op' = "Validate"
    /\ UNCHANGED <<tvVars, spriteVars, cpuVars, memVars, debuggerVars,
                   databaseVars, symbolsVars, registerVars>>

NextValidate == ValidateStep
SpecValidate == InitValidate /\ [][NextValidate]_vars

(***************************************************************************)
(* Properties of the validation of command lines                           *)
(***************************************************************************)
Validates == op = "Validate" /\ cmdline.err = NoValidationError
Fails == op = "Validate" /\ cmdline.err # NoValidationError

\* the most recent validation was of this line against this template
ValidatedLine(name, line) ==
    op = "Validate" /\ cmdline.template = name /\ cmdline.input = line

\* the words of the tests that are 32-bit integers: decimal, 0x and $
IntegerWords == {wTen, wHex, wDollarHex}

\* C25: a required %N accepts a token exactly when it parses as a 32-bit
\* integer (decimal, with 0x, or with $ which becomes 0x); for the template
\* "TEST (arg [%N]|foo)", "TEST" and "TEST arg 10" validate, "TEST arg" is
\* rejected and "TEST arg bar" is rejected with a ValidationError that says
\* unrecognised argument (bar).
C25_NumericPlaceholder ==
    /\ \A w \in Templates.branchesAndNumeric.words :
          ValidatedLine("branchesAndNumeric", <<wTest, wArg, w>>) =>
              /\ Validates <=> w \in IntegerWords
              /\ cmdline.tokens.tokens[3] = normaliseHex(w)
    /\ \A w \in Templates.numericAfterGroup.words :
          /\ ValidatedLine("numericAfterGroup", <<wTest, wArg, w>>) =>
                 (Validates <=> w \in IntegerWords)
          /\ (w \notin {wArg, wFoo}
                /\ ValidatedLine("numericAfterGroup", <<wTest, w>>)) =>
                 (Validates <=> w \in IntegerWords)
    /\ ValidatedLine("branchesAndNumeric", <<wTest>>) => Validates
    /\ ValidatedLine("branchesAndNumeric", <<wTest, wArg>>) => Fails
    /\ ValidatedLine("branchesAndNumeric", <<wTest, wArg, wBar>>) =>
          cmdline.err = ValidationError("unrecognised argument", wBar)

C25_Witness ==
    /\ ValidatedLine("branchesAndNumeric", <<wTest, wArg, wDollarHex>>)
    /\ Validates
    /\ cmdline.tokens.tokens = <<wTest, ToUpper(wArg), wHex>>
    /\ cmdline.matched = <<1, 2, 3>>

\* the grammar a template stands for: a keyword, a number, a string or file
\* name, a sequence, alternatives, an optional part, a repeated part
Kw(w) == [op |-> "kw", w |-> w]
Num == [op |-> "num"]
Str == [op |-> "str"]
SeqOf(parts) == [op |-> "seq", of |-> parts]
Alt(parts) == [op |-> "alt", of |-> parts]
Opt(g) == [op |-> "opt", of |-> <<g>>]
Rep(g) == [op |-> "rep", of |-> <<g>>]

\* the templates of the tests as grammars: for each command its arguments
Grammars ==
    [ required |-> <<[cmd |-> wTest, args |-> Kw(wArg)]>>,
      optional |-> <<[cmd |-> wTest, args |-> Opt(Kw(wArg))]>>,
      branchesAndNumeric |->
          <<[cmd |-> wTest,
             args |-> Opt(Alt(<<SeqOf(<<Kw(wArg), Num>>), Kw(wFoo)>>))]>>,
      numericAfterGroup |->
          <<[cmd |-> wTest,
             args |-> SeqOf(<<Opt(Alt(<<Kw(wArg), Kw(wFoo)>>)), Num>>)]>>,
      repeatGroup |->
          <<[cmd |-> wTest,
             args |-> Rep(Alt(<<Kw(wFoo), Kw(wBar), Kw(wBaz)>>))]>>,
      repeatAfterKeyword |->
          <<[cmd |-> wTest,
             args |-> Alt(<<Kw(wFoo),
                            SeqOf(<<Kw(wBar),
                                    Rep(Alt(<<Kw(wBaz), Kw(wQux)>>))>>)>>)]>>,
      filenameFirstArg |->
          <<[cmd |-> wTest,
             args |-> Alt(<<Str, SeqOf(<<Kw(wFoo), Kw(wWibble)>>), Kw(wBar)>>)]>>,
      singularOption |->
          <<[cmd |-> wScript,
             args |-> Alt(<<SeqOf(<<Kw(wRecord), Opt(Kw(wRegression)), Str>>),
                            Kw(wEnd), Str>>)]>>,
      symbol |->
          <<[cmd |-> wSymbol,
             args |-> Alt(<<SeqOf(<<Str, Opt(Alt(<<Kw(wAll), Kw(wMirrors)>>))>>),
                            Kw(wList)>>)]>>,
      commands |->
          <<[cmd |-> wList, args |-> SeqOf(<<>>)],
            [cmd |-> wPrint, args |-> Str],
            [cmd |-> wSort, args |-> Opt(Alt(<<Kw(wRising), Kw(wFalling)>>))]>> ]

\* what can be left of the tokens s when a grammar has taken its part of
\* them from the front
RECURSIVE Rest(_, _)
RECURSIVE RestOfSeq(_, _, _)
RECURSIVE RestOfRep(_, _)
Rest(g, s) ==
    CASE g.op = "kw" ->
            IF s # <<>> /\ ToUpper(Head(s)) = ToUpper(g.w) THEN {Tail(s)} ELSE {}
      [] g.op = "num" ->
            IF s # <<>> /\ ParseInt(normaliseHex(Head(s))).ok
            THEN {Tail(s)}
            ELSE {}
      [] g.op = "str" -> IF s # <<>> THEN {Tail(s)} ELSE {}
      [] g.op = "seq" -> RestOfSeq(g.of, 1, s)
      [] g.op = "alt" -> UNION {Rest(g.of[i], s) : i \in 1..Len(g.of)}
      [] g.op = "opt" -> Rest(g.of[1], s) \cup {s}
      [] g.op = "rep" -> RestOfRep(g.of[1], s)
RestOfSeq(parts, i, s) ==
    IF i > Len(parts)
    THEN {s}
    ELSE UNION {RestOfSeq(parts, i + 1, r) : r \in Rest(parts[i], s)}
RestOfRep(g, s) ==
    {s} \cup UNION {RestOfRep(g, r) : r \in Rest(g, s) \ {s}}

\* the line is empty, or names a command of the template and its arguments
\* are all taken by the grammar of the command
InLanguage(name, line) ==
    \/ line = <<>>
    \/ \E i \in 1..Len(Grammars[name]) :
          /\ ToUpper(Head(line)) = Grammars[name][i].cmd
          /\ <<>> \in Rest(Grammars[name][i].args, Tail(line))

\* C26: Validate accepts a line exactly when the template takes all of its
\* tokens: a required argument that is missing is an error, an optional one
\* that is absent is not, a token that matches no alternative is an error and
\* a token left over is rejected as an unrecognised argument; keywords and
\* command names match in any case, and the empty line validates.
C26_AcceptsExactlyTheTemplate ==
    /\ op = "Validate" =>
          (Validates <=> InLanguage(cmdline.template, cmdline.input))
    /\ ValidatedLine("required", <<wTest, wArg, wFoo>>) =>
          cmdline.err = ValidationError("unrecognised argument for command", wFoo)
    /\ ValidatedLine("required", <<wTestLower, wArgMixed>>) => Validates
    /\ ValidatedLine("required", <<wTest>>) => Fails
    /\ ValidatedLine("optional", <<wTest>>) => Validates
    /\ ValidatedLine("commands", <<wListLower>>) => Validates

\* C27: a repeat group takes any number of tokens that each match one of its
\* alternatives, in any order, also after a keyword of a required group; a
\* line in which another token follows the repetitions is rejected.
C27_RepeatGroups ==
    /\ (op = "Validate" /\ cmdline.template = "repeatGroup"
          /\ cmdline.input # <<>>) =>
          (Validates <=>
              \A i \in 2..Len(cmdline.input) :
                  cmdline.input[i] \in {wFoo, wBar, wBaz})
    /\ (op = "Validate" /\ cmdline.template = "repeatAfterKeyword"
          /\ cmdline.input # <<>>) =>
          (Validates <=>
              \/ cmdline.input = <<wTest, wFoo>>
              \/ /\ Len(cmdline.input) >= 2
                 /\ cmdline.input[2] = wBar
                 /\ \A i \in 3..Len(cmdline.input) :
                        cmdline.input[i] \in {wBaz, wQux})

C27_Witness ==
    /\ ValidatedLine("repeatGroup", <<wTest, wBar, wFoo, wBaz, wBaz>>)
    /\ Validates
    /\ cmdline.matched = <<1, 3, 2, 4, 4>>

\* C28: where a %S or %F placeholder and keywords are offered at the same
\* place, a token equal to a keyword is validated along the branch of the
\* keyword, with the arguments that follow it, and the placeholder takes only
\* a token for which no branch of a keyword validates.
\* the placeholder of the template at the first argument and the keywords
\* offered with it, as places in the table of nodes
Offered ==
    [ filenameFirstArg |-> [placeholder |-> 2, keywords |-> <<3, 5>>],
      singularOption   |-> [placeholder |-> 6, keywords |-> <<2, 5>>],
      symbol           |-> [placeholder |-> 2, keywords |-> <<5>>] ]

\* the validation of the arguments of the line along the keyword at place k
\* alone, the alternatives offered with it left aside
AlongKeyword(name, line, k) ==
    validate([Templates[name].nodes EXCEPT ![k].branch = <<>>], k,
             [tokens |-> line, curr |-> 1], TRUE)
KeywordValidates(name, line, k) ==
    AlongKeyword(name, line, k).err = NoValidationError

C28_KeywordBeforePlaceholder ==
    /\ \A name \in DOMAIN Offered :
        (op = "Validate" /\ cmdline.template = name
           /\ Len(cmdline.input) >= 2) =>
            LET o == Offered[name]
                ks == {o.keywords[i] : i \in 1..Len(o.keywords)}
                valid == {k \in ks : KeywordValidates(name, cmdline.input, k)}
            IN  /\ valid # {} =>
                    /\ Len(cmdline.matched) >= 2
                    /\ cmdline.matched[2] \in valid
                    /\ cmdline.matched =
                          <<1>> \o AlongKeyword(name, cmdline.input,
                                                cmdline.matched[2]).matched
                /\ (Len(cmdline.matched) >= 2
                      /\ cmdline.matched[2] = o.placeholder) => valid = {}
    /\ ValidatedLine("filenameFirstArg", <<wTest, wFoo, wWibble>>) =>
          Validates /\ cmdline.matched = <<1, 3, 4>>
    /\ ValidatedLine("singularOption", <<wScript, wFoo>>) =>
          Validates /\ cmdline.matched = <<1, 6>>
    /\ ValidatedLine("singularOption", <<wScript, wEnd>>) =>
          Validates /\ cmdline.matched = <<1, 5>>
    /\ ValidatedLine("singularOption", <<wScript, wRecord, wRegression, wFoo>>) =>
          Validates /\ cmdline.matched = <<1, 2, 3, 4>>
    /\ ValidatedLine("singularOption",
                     <<wScript, wRecord, wRegression, wFoo, wEndLower>>) => Fails

C28_Witness ==
    /\ ValidatedLine("filenameFirstArg", <<wTest, wFoo, wWibble>>)
    /\ Validates
    /\ cmdline.matched = <<1, 3, 4>>
    /\ cmdline.tokens.tokens = <<wTest, ToUpper(wFoo), ToUpper(wWibble)>>

(***************************************************************************)
(* Part 7: selection from the session database (Session.SelectAll and      *)
(* Session.SelectKeys).                                                    *)
(*                                                                         *)
(* The Session keeps its entries under integer keys.  An entry is known by *)
(* the key it is stored under; the nil Entry is NilEntry.  A selection     *)
(* does not change the Session, so one call of SelectAll() or SelectKeys() *)
(* is one step and leaves the entries as they were.  The callback onSelect *)
(* is either nil or a function that answers (cont, err) for the entry it   *)
(* is given: it asks to stop at one entry and fails at one entry.          *)
(***************************************************************************)

MaxKey == 2       \* the keys of the database are 1..MaxKey
MaxKeyList == 2   \* the longest list of keys given to SelectKeys()

Keys == 1..MaxKey

NilEntry == <<>>
EntryOf(key) == <<"entry", key>>

DatabaseSelectEmpty == "DatabaseSelectEmpty"
SelectError == "onSelect error"

\* the entries of a Session that holds the keys given
Session(keys) == [k \in keys |-> EntryOf(k)]

\* db.entries[key]: the nil Entry when the key is not in the map
Lookup(entries, key) ==
    IF key \in DOMAIN entries THEN entries[key] ELSE NilEntry

RECURSIVE SortedKeys(_)
SortedKeys(keys) ==
    IF keys = {} THEN <<>>
    ELSE LET least == CHOOSE k \in keys : \A j \in keys : k <= j
         IN  <<least>> \o SortedKeys(keys \ {least})

SortedKeyList(entries) == SortedKeys(DOMAIN entries)

\* a callback: nil, or one that returns cont = false for the entry stored
\* under stopAt and an error for the entry stored under errAt (0 for none)
NilCallback == [nil |-> TRUE, stopAt |-> 0, errAt |-> 0]
Callbacks ==
    {NilCallback} \cup
    [nil : {FALSE}, stopAt : {0} \cup Keys, errAt : {0} \cup Keys]

\* onSelect(entry), with nil replaced by the function that returns true, nil
onSelect(callback, entry) ==
    IF callback.nil \/ entry = NilEntry
    THEN [cont |-> TRUE, err |-> NoError]
    ELSE [cont |-> entry[2] # callback.stopAt,
          err  |-> IF entry[2] = callback.errAt THEN SelectError
                   ELSE NoError]

Selected(entry, e, visited) == [entry |-> entry, err |-> e, visited |-> visited]

breakLoop_Never(cont) == FALSE

\* if !cont { break }
breakLoop(cont) == ~cont

\* the loop of SelectAll(): the entry of the loop is a variable of its own,
\* declared in the body of the loop
RECURSIVE SelectAllLoop(_, _, _, _, _, _)
SelectAllLoop(entries, callback, keyList, k, entry, visited) ==
    IF k > Len(keyList) THEN Selected(entry, NoError, visited)
    ELSE LET inner == Lookup(entries, keyList[k])
             r == onSelect(callback, inner)
             seen == Append(visited, inner)
         IN  IF r.err # NoError THEN Selected(inner, r.err, seen)
             ELSE IF breakLoop(r.cont) THEN Selected(entry, NoError, seen)
             ELSE SelectAllLoop(entries, callback, keyList, k + 1, entry, seen)

SelectAll(entries, callback) ==
    SelectAllLoop(entries, callback, SortedKeyList(entries), 1, NilEntry, <<>>)

\* the loop of SelectKeys(): the entry of the function is assigned to
RECURSIVE SelectKeysLoop(_, _, _, _, _, _)
SelectKeysLoop(entries, callback, keyList, i, entry, visited) ==
    IF i > Len(keyList) THEN Selected(entry, NoError, visited)
    ELSE LET found == Lookup(entries, keyList[i])
             r == onSelect(callback, found)
             seen == Append(visited, found)
         IN  IF r.err # NoError THEN Selected(found, r.err, seen)
             ELSE IF breakLoop(r.cont) THEN Selected(found, NoError, seen)
             ELSE SelectKeysLoop(entries, callback, keyList, i + 1, found, seen)

SelectKeys(entries, callback, keys) ==
    LET keyList == IF Len(keys) = 0 THEN SortedKeyList(entries) ELSE keys
        r == SelectKeysLoop(entries, callback, keyList, 1, NilEntry, <<>>)
    IN  IF r.err # NoError THEN r
        ELSE IF r.entry = NilEntry
             THEN Selected(NilEntry, DatabaseSelectEmpty, r.visited)
             ELSE r

RECURSIVE KeyListsOf(_)
KeyListsOf(n) ==
    IF n = 0 THEN {<<>>}
    ELSE LET shorter == KeyListsOf(n - 1)
         IN  shorter \cup {Append(l, k) : l \in {s \in shorter : Len(s) = n - 1},
                                         k \in Keys}

KeyLists == KeyListsOf(MaxKeyList)

InitDatabase ==
    /\ \E keys \in SUBSET Keys :
        db = [ entries  |-> Session(keys),
               callback |-> NilCallback,
               keys     |-> <<>>,
               entry    |-> NilEntry,
               err      |-> NoError,
               visited  |-> <<>> ]
    /\ op = "NewSession"
    /\ NoTelevision
    /\ sp = Absent /\ spObs = Absent /\ result = Absent
    /\ mem = Absent /\ memObs = Absent
    /\ NoDebugger /\ NoCommandline
    /\ NoSymbols /\ NoRegister

SelectAllStep ==
    /\ \E callback \in Callbacks :
        LET r == SelectAll(db.entries, callback)
        IN  db' = [db EXCEPT !.callback = callback,
                             !.keys = <<>>,
                             !.entry = r.entry,
                             !.err = r.err,
                             !.visited = r.visited]
    /\ op' = "SelectAll"
    /\ UNCHANGED <<tvVars, spriteVars, cpuVars, memVars, debuggerVars,
                   cmdlineVars, symbolsVars, registerVars>>

SelectKeysStep ==
    /\ \E callback \in Callbacks, keys \in KeyLists :
        LET r == SelectKeys(db.entries, callback, keys)
        IN  db' = [db EXCEPT !.callback = callback,
                             !.keys = keys,
                             !.entry = r.entry,
                             !.err = r.err,
                             !.visited = r.visited]
    /\ op' = "SelectKeys"
    /\ UNCHANGED <<tvVars, spriteVars, cpuVars, memVars, debuggerVars,
                   cmdlineVars, symbolsVars, registerVars>>

NextDatabase == SelectAllStep \/ SelectKeysStep
SpecDatabase == InitDatabase /\ [][NextDatabase]_vars

\* the entries the selection matched: those given to onSelect
Matched == SelectSeq(db.visited, LAMBDA e : e # NilEntry)

\* the selection came to its end because onSelect returned false
Stopped ==
    /\ ~db.callback.nil
    /\ Len(db.visited) > 0
    /\ db.visited[Len(db.visited)] # NilEntry
    /\ db.visited[Len(db.visited)][2] = db.callback.stopAt

\* C29: SelectAll() without an error returns the last matched entry: the
\* entry with the greatest key when onSelect ran over the whole database,
\* the entry at which onSelect returned false when it stopped the selection.
C29_SelectAllReturnsLastMatched ==
    (op = "SelectAll" /\ db.err = NoError /\ DOMAIN db.entries # {}) =>
        /\ db.entry = db.visited[Len(db.visited)]
        /\ ~Stopped =>
            db.entry = EntryOf(CHOOSE k \in DOMAIN db.entries :
                                  \A j \in DOMAIN db.entries : j <= k)

\* C30: SelectKeys() returns DatabaseSelectEmpty exactly when no entry was
\* matched and otherwise, unless onSelect failed, the last matched entry with
\* a nil error; with an empty list of keys it gives onSelect the entries
\* SelectAll() gives it, in the same order.
C30_SelectKeysLastMatchedOrEmpty ==
    op = "SelectKeys" =>
        /\ db.err = DatabaseSelectEmpty <=> Matched = <<>>
        /\ db.err = NoError => db.entry = Matched[Len(Matched)]
        /\ db.keys = <<>> =>
            db.visited = SelectAll(db.entries, db.callback).visited

\* the list of keys the most recent selection went through
SelectedKeyList ==
    IF op = "SelectAll" \/ db.keys = <<>>
    THEN SortedKeyList(db.entries) ELSE db.keys

\* what onSelect answered for the entry it was given last
LastAnswer == onSelect(db.callback, db.visited[Len(db.visited)])

MaxSymLines == 2   \* the most lines of a symbols file

NoFile == <<>>
FileName(stem, ext) == <<stem, ext>>
EmptyCartridge == FileName("", "")

\* path.Ext and the choice of the case of the extension
SymFilename(cartridgeFilename) ==
    IF cartridgeFilename[2] = ".BIN"
    THEN FileName(cartridgeFilename[1], ".SYM")
    ELSE FileName(cartridgeFilename[1], ".sym")

SymbolsFileUnavailable == "SymbolsFileUnavailable"
SymbolsFileError == "SymbolsFileError"

\* the canonical symbols of the VCS (some of them): address -> symbol
sVSYNC == <<"V", "S", "Y", "N", "C">>
sVBLANK == <<"V", "B", "L", "A", "N", "K">>
sCXM0P == <<"C", "X", "M", "0", "P">>
sCXM1P == <<"C", "X", "M", "1", "P">>
CanonicalRead == (0 :> sCXM0P) @@ (1 :> sCXM1P)
CanonicalWrite == (0 :> sVSYNC) @@ (1 :> sVBLANK)

\* newTable()
newTable == [Symbols |-> <<>>, idx |-> <<>>, maxWidth |-> 0]

\* table.add(address, symbol, prefer): a symbol already at the address is
\* replaced only by a preferred symbol; the widest symbol given is noted
add(tb, address, symbol, prefer) ==
    LET width == IF Len(symbol) > tb.maxWidth THEN Len(symbol) ELSE tb.maxWidth
    IN  IF address \in DOMAIN tb.Symbols
        THEN [tb EXCEPT !.Symbols = IF prefer
                                    THEN [tb.Symbols EXCEPT ![address] = symbol]
                                    ELSE tb.Symbols,
                        !.maxWidth = width]
        ELSE [Symbols  |-> (address :> symbol) @@ tb.Symbols,
              idx      |-> SortedKeys(DOMAIN tb.Symbols \cup {address}),
              maxWidth |-> width]

RECURSIVE addAll(_, _, _)
addAll(tb, canonical, addresses) ==
    IF addresses = {} THEN tb
    ELSE LET k == CHOOSE a \in addresses : TRUE
         IN  addAll(add(tb, k, canonical[k], TRUE), canonical, addresses \ {k})

\* new(Table) with its three tables
NewTable ==
    [ Locations |-> newTable, Read |-> newTable, Write |-> newTable,
      MaxLocationWidth |-> 0, MaxSymbolWidth |-> 0 ]

\* the deferred function of ReadSymbolsFile()
Deferred(table) ==
    LET rd == addAll(table.Read, CanonicalRead, DOMAIN CanonicalRead)
        wr == addAll(table.Write, CanonicalWrite, DOMAIN CanonicalWrite)
    IN  [ Locations |-> table.Locations, Read |-> rd, Write |-> wr,
          MaxLocationWidth |-> table.Locations.maxWidth,
          MaxSymbolWidth |-> IF rd.maxWidth > wr.maxWidth
                             THEN rd.maxWidth ELSE wr.maxWidth ]

\* strconv.ParseUint(p[1], 16, 16): -1 for an error
MaxUint16 == 65535
ParseUintHex16(field) ==
    IF field = <<>> \/ \E i \in 1..Len(field) : ~IsDigit(field[i], 16)
    THEN -1
    ELSE NumberValue(field, 16, MaxUint16)

\* strings.Index(symbol, "."): 0 when there is none
IndexOfPeriod(symbol) ==
    IF \E i \in 1..Len(symbol) : symbol[i] = "."
    THEN CHOOSE i \in 1..Len(symbol) :
             symbol[i] = "." /\ \A j \in 1..(i - 1) : symbol[j] # "."
    ELSE 0

\* the body of "for _, ln := range lines" for one line
addLine(table, p) ==
    IF Len(p) < 2 \/ p[1] = <<"-", "-", "-">>
    THEN table
    ELSE LET address == ParseUintHex16(p[2])
             symbol == p[1]
         IN  IF address = -1
             THEN table
             ELSE IF IsDigit(symbol[1], 10)
             THEN IF IndexOfPeriod(symbol) # 0
                  THEN [table EXCEPT !.Locations =
                           add(@, address,
                               SubSeq(symbol, IndexOfPeriod(symbol), Len(symbol)),
                               FALSE)]
                  ELSE table
             ELSE [table EXCEPT !.Read = add(@, address, symbol, FALSE),
                                !.Write = add(@, address, symbol, FALSE)]

RECURSIVE addLines(_, _, _)
addLines(table, lines, i) ==
    IF i > Len(lines) THEN table
    ELSE addLines(addLine(table, lines[i]), lines, i + 1)

\* what ReadSymbolsFile() gives: the pointer returned is nil or points to the
\* Table, table is the Table after the deferred function
ReadResult(isNil, table, e) == [nil |-> isNil, table |-> table, err |-> e]

ReadSymbolsFile(cartridgeFilename, file) ==
    IF cartridgeFilename = EmptyCartridge
    THEN ReadResult(FALSE, Deferred(NewTable), NoError)
    ELSE IF file.name # SymFilename(cartridgeFilename)
    THEN ReadResult(FALSE, Deferred(NewTable), SymbolsFileUnavailable)
    ELSE IF file.readError
    THEN ReadResult(TRUE, Deferred(NewTable), SymbolsFileError)
    ELSE ReadResult(FALSE, Deferred(addLines(NewTable, file.lines, 1)), NoError)

\* the fields of the lines of the symbols files
fDashes == <<"-", "-", "-">>
fStart == <<"S", "T", "A", "R", "T">>
fLoop == <<"1", ".", "l", "o", "o", "p">>
fDigits == <<"2", "x">>
fF000 == <<"f", "0", "0", "0">>
fZero == <<"0", "0">>
fNotHex == <<"z", "z">>
fTooWide == <<"1", "0", "0", "0", "0">>

SymLines ==
    { <<fDashes, fStart, fF000>>, <<fStart>>, <<fStart, fF000>>,
      <<fStart, fZero>>, <<fStart, fNotHex>>, <<fStart, fTooWide>>,
      <<fLoop, fF000>>, <<fDigits, fF000>> }

RECURSIVE SymFilesOf(_)
SymFilesOf(n) ==
    IF n = 0 THEN {<<>>}
    ELSE LET shorter == SymFilesOf(n - 1)
         IN  shorter \cup {Append(f, ln) : f \in {s \in shorter : Len(s) = n - 1},
                                           ln \in SymLines}

Cartridges ==
    {EmptyCartridge, FileName("game", ".bin"), FileName("GAME", ".BIN")}

Files ==
    {[name |-> NoFile, readError |-> FALSE, lines |-> <<>>]} \cup
    [name : {FileName("game", ".sym"), FileName("GAME", ".SYM")},
     readError : {TRUE}, lines : {<<>>}] \cup
    [name : {FileName("game", ".sym"), FileName("GAME", ".SYM")},
     readError : {FALSE}, lines : SymFilesOf(MaxSymLines)]

NotRead == ReadResult(TRUE, NewTable, "not read")

InitSymbols ==
    /\ \E c \in Cartridges, f \in Files :
        symbols = [cartridgeFilename |-> c, file |-> f, ret |-> NotRead]
    /\ op = "NewCartridge"
    /\ NoTelevision
    /\ sp = Absent /\ spObs = Absent /\ result = Absent
    /\ mem = Absent /\ memObs = Absent
    /\ NoDebugger /\ NoCommandline /\ NoDatabase /\ NoRegister

ReadSymbolsFileStep ==
    /\ symbols.ret = NotRead
    /\ symbols' = [symbols EXCEPT
                      !.ret = ReadSymbolsFile(symbols.cartridgeFilename,
                                              symbols.file)]
    /\ op' = "ReadSymbolsFile"
    /\ UNCHANGED <<tvVars, spriteVars, cpuVars, memVars, debuggerVars,
                   cmdlineVars, databaseVars, registerVars>>

NextSymbols == ReadSymbolsFileStep
SpecSymbols == InitSymbols /\ [][NextSymbols]_vars

\* the table holds the canonical symbols
HasCanonical(tb, canonical) ==
    \A a \in DOMAIN canonical :
        a \in DOMAIN tb.Symbols /\ tb.Symbols[a] = canonical[a]

\* C32: ReadSymbolsFile() returns a Table that is not nil and holds the
\* canonical read and write symbols, whether it returns an error or not.
C32_TableAlwaysValid ==
    op = "ReadSymbolsFile" =>
        /\ ~symbols.ret.nil
        /\ HasCanonical(symbols.ret.table.Read, CanonicalRead)
        /\ HasCanonical(symbols.ret.table.Write, CanonicalWrite)

(***************************************************************************)
(* Part 9: the register of n bits (package r16bit), as its test uses it.   *)
(*                                                                         *)
(* The register is the list of its n bits, the most significant first.     *)
(* Load() keeps the low n bits of the number it is given; Add() adds bit   *)
(* by bit from the least significant, with the carry handed on, and        *)
(* returns the carry out of the most significant bit.  The number and the  *)
(* binary string that the assertions of the test compare with are read     *)
(* from the bits.                                                          *)
(***************************************************************************)

MaxOps == 2   \* the most calls of Load() and Add() on one register

Widths == {1, 6, 8, 16}

\* the bits of v, the most significant of the n first
RECURSIVE BitsOf(_, _)
BitsOf(v, n) ==
    IF n = 0 THEN <<>> ELSE Append(BitsOf(v \div 2, n - 1), v % 2)

\* r16bit.Generate(v, bitlen)
Generate(v, bitlen) == [bits |-> BitsOf(v, bitlen), size |-> bitlen]

\* Register.Load(v)
Load(r, v) == [r EXCEPT !.bits = BitsOf(v, r.size)]

\* the addition of the bits from place i down to the least significant:
\* the bits of the sum from i on and the carry out of place i
RECURSIVE AddFrom(_, _, _, _)
AddFrom(a, b, i, carryIn) ==
    IF i > Len(a) THEN [bits |-> <<>>, carry |-> carryIn]
    ELSE LET low == AddFrom(a, b, i + 1, carryIn)
             s == a[i] + b[i] + low.carry
         IN  [bits |-> <<s % 2>> \o low.bits, carry |-> s \div 2]

Add_CarryInDropped(r, v, carry) ==
    LET s == AddFrom(r.bits, BitsOf(v, r.size), 1, 0)
    IN  [reg |-> [r EXCEPT !.bits = s.bits], carry |-> s.carry = 1]

\* Register.Add(v, carry): the register after it and the carry it returns
Add(r, v, carry) ==
    LET s == AddFrom(r.bits, BitsOf(v, r.size), 1, IF carry THEN 1 ELSE 0)
    IN  [reg |-> [r EXCEPT !.bits = s.bits], carry |-> s.carry = 1]

\* the number the register compares equal with
RECURSIVE ToInt(_)
ToInt(bits) ==
    IF bits = <<>> THEN 0
    ELSE 2 * ToInt(SubSeq(bits, 1, Len(bits) - 1)) + bits[Len(bits)]

\* the binary string of the register
BinaryString(bits) == [i \in 1..Len(bits) |-> IF bits[i] = 1 THEN "1" ELSE "0"]

\* the numbers given to Load() and Add()
Values == {0, 1, 2, 63, 64, 127, 129, 255, 256, 65535, 65536, 65663}

InitRegister ==
    /\ \E n \in Widths :
        reg = [ r |-> Generate(0, n), ops |-> 0, before |-> 0, v |-> 0,
                carryIn |-> FALSE, carryOut |-> FALSE ]
    /\ op = "Generate"
    /\ NoTelevision
    /\ sp = Absent /\ spObs = Absent /\ result = Absent
    /\ mem = Absent /\ memObs = Absent
    /\ NoDebugger /\ NoCommandline /\ NoDatabase /\ NoSymbols

LoadStep ==
    /\ reg.ops < MaxOps
    /\ \E v \in Values :
        reg' = [reg EXCEPT !.r = Load(reg.r, v), !.ops = @ + 1,
                           !.before = ToInt(reg.r.bits), !.v = v,
                           !.carryIn = FALSE, !.carryOut = FALSE]
    /\ op' = "Load"
    /\ UNCHANGED <<tvVars, spriteVars, cpuVars, memVars, debuggerVars,
                   cmdlineVars, databaseVars, symbolsVars>>

\* Add() is given numbers the register can hold
AddStep ==
    /\ reg.ops < MaxOps
    /\ \E v \in {x \in Values : x < 2 ^ reg.r.size}, carry \in BOOLEAN :
        LET a == Add(reg.r, v, carry)
        IN  reg' = [reg EXCEPT !.r = a.reg, !.ops = @ + 1,
                               !.before = ToInt(reg.r.bits), !.v = v,
                               !.carryIn = carry, !.carryOut = a.carry]
    /\ op' = "Add"
    /\ UNCHANGED <<tvVars, spriteVars, cpuVars, memVars, debuggerVars,
                   cmdlineVars, databaseVars, symbolsVars>>

NextRegister == LoadStep \/ AddStep
SpecRegister == InitRegister /\ [][NextRegister]_vars

\* the sum Add() was asked for, not reduced
UnreducedSum == reg.before + reg.v + (IF reg.carryIn THEN 1 ELSE 0)

C34_NotPausedWhileRunning ==
    /\ (dbg.pc = "Step" /\ dbg.stepErr = nilError) => ~dbgObs.paused
    /\ (op = "inputLoop" /\ dbgObs.checkTerm /\ ~dbgObs.pass.halt) =>
           ~dbgObs.pass.unpause

\* C35: an AtariError from vcs.Step does not end the input loop: it sets
\* lastStepError, and the next pass of the loop halts for input, with
\* runUntilHalt set too, and clears lastStepError; any other error from
\* vcs.Step is returned by inputLoop.
C35_StepErrorHaltsNextPass ==
    /\ (op = "Step" /\ dbgObs.stepErr # nilError) =>
        IF IsAny(dbgObs.stepErr)
        THEN dbg.pc = "inputLoop" /\ dbg.lastStepError
        ELSE dbg.pc = "returned" /\ dbg.ret = dbgObs.stepErr
    /\ (op = "inputLoop" /\ dbgObs.pass.reached /\ dbgObs.stepError) =>
        /\ dbgObs.pass.halt
        /\ dbgObs.pass.pause
        /\ ~dbg.lastStepError

C35_Witness ==
    /\ op = "inputLoop"
    /\ dbgObs.pass.reached
    /\ dbgObs.stepError
    /\ dbgObs.untilHalt
    /\ IsAny(dbgObs.stepErr)
    /\ dbgObs.pass.halt
    /\ ~dbg.lastStepError

\* C36: a pass of an input loop of video cycles checks the breakpoints,
\* traps, watches and step traps for an instruction of effect Flow,
\* Subroutine or Interrupt only when its result is Final, and for an
\* instruction of any other effect only when its result is not Final; a pass
\* of the input loop of CPU quantums always checks them.
C36_TrapsCheckedByEffect ==
    (op = "inputLoop" /\ dbgObs.pass.reached) =>
        IF ~dbgObs.video
        THEN dbgObs.pass.checked
        ELSE dbgObs.pass.checked =>
                IF dbgObs.last.Effect \in {Flow, Subroutine, Interrupt}
                THEN dbgObs.last.Final
                ELSE ~dbgObs.last.Final

\* C37: vcs.Step is called only by the input loop that has videoCycle false:
\* a pass of an input loop of video cycles never goes on to vcs.Step, it
\* returns to the Step in progress when the emulation is to continue and
\* loops only when it is not, so the loops are two deep at most and the
\* count of instructions begun grows only from the outer loop.
C37_StepOnlyFromOuterLoop ==
    [][ /\ dbgObs'.steps # dbgObs.steps =>
            /\ dbg.pc = "inputLoop"
            /\ dbg'.pc = "Step"
            /\ ~dbgObs'.video
        /\ dbg.pc = "videoLoop" =>
            /\ dbgObs'.video
            /\ dbgObs'.out # "Step"
            /\ dbg'.pc = IF dbgObs'.out = "loop" THEN "videoLoop" ELSE "Step"
            /\ dbg'.continueEmulation => dbgObs'.out = "return"
      ]_vars

C37_Witness ==
    /\ op = "inputLoop"
    /\ dbgObs.video
    /\ dbgObs.pass.reached
    /\ dbgObs.pass.halt
    /\ dbgObs.parsed = "STEP"
    /\ dbg.continueEmulation
    /\ dbgObs.out = "return"
    /\ dbg.pc = "Step"
    /\ dbgObs.steps = 1

====
